---- MODULE Spec2Model ----
(***************************************************************************)
(* A model of DocDiff (src/docdiff): page matching (match.py), change      *)
(* detection and impact scoring (cli.py, diff_notes.py, diff_specs.py,     *)
(* diff_tables.py) and the command-line run (cli.run).                     *)
(*                                                                         *)
(* Python strings are modelled as sequences of one-character strings, so   *)
(* that slicing, stripping, case folding and the regular expressions of    *)
(* the source act on characters as they do in the program.  Floating point *)
(* scores are modelled exactly as integers scaled by ScoreScale.           *)
(***************************************************************************)
EXTENDS Integers, Sequences, FiniteSets, TLC

(***************************************************************************)
(* Characters and string primitives                                        *)
(***************************************************************************)

\* The value of F at e, with e evaluated once: LET v == e IN F(v).
Bind(e, F(_)) == CHOOSE r \in {F(v) : v \in {e}} : TRUE

\* The characters of the modelled texts in code point order (ord()).
CodeOrder ==
    <<"\t", "\n", " ", "(", ")", "+", ",", "-", ".", "/",
      "0", "1", "2", "3", "4", "5", "6", "7", "8", "9", ":", ";",
      "A", "B", "C", "D", "E", "F", "G", "H", "I", "J", "K", "L", "M",
      "N", "O", "P", "Q", "R", "S", "T", "U", "V", "W", "X", "Y", "Z", "_",
      "a", "b", "c", "d", "e", "f", "g", "h", "i", "j", "k", "l", "m",
      "n", "o", "p", "q", "r", "s", "t", "u", "v", "w", "x", "y", "z", "|">>

\* The place of c in the sequence chars, 0 when it does not occur.
IndexIn(chars, c) ==
    IF \E i \in 1..Len(chars) : chars[i] = c
    THEN CHOOSE i \in 1..Len(chars) : chars[i] = c
    ELSE 0

SeqRange(q) == {q[k] : k \in 1..Len(q)}

\* The place of every character in CodeOrder.
CodeRank == [c \in SeqRange(CodeOrder) |-> IndexIn(CodeOrder, c)]

\* ord() up to an increasing map.
Ord(c) == CodeRank[c]

UpperChars ==
    <<"A", "B", "C", "D", "E", "F", "G", "H", "I", "J", "K", "L", "M",
      "N", "O", "P", "Q", "R", "S", "T", "U", "V", "W", "X", "Y", "Z">>

LowerChars ==
    <<"a", "b", "c", "d", "e", "f", "g", "h", "i", "j", "k", "l", "m",
      "n", "o", "p", "q", "r", "s", "t", "u", "v", "w", "x", "y", "z">>

DigitChars == <<"0", "1", "2", "3", "4", "5", "6", "7", "8", "9">>

UpperSet == SeqRange(UpperChars)

LowerSet == SeqRange(LowerChars)

DigitSet == SeqRange(DigitChars)

ToLower == [c \in UpperSet |-> LowerChars[IndexIn(UpperChars, c)]]

ToUpper == [c \in LowerSet |-> UpperChars[IndexIn(LowerChars, c)]]

IsSpace(c) == c \in {" ", "\n", "\t"}

IsDigit(c) == c \in DigitSet

IsUpper(c) == c \in UpperSet

IsLower(c) == c \in LowerSet

\* \w of Python's re for the modelled characters.
IsWordChar(c) == IsDigit(c) \/ IsUpper(c) \/ IsLower(c) \/ c = "_"

LowerChar(c) == IF c \in UpperSet THEN ToLower[c] ELSE c

UpperChar(c) == IF c \in LowerSet THEN ToUpper[c] ELSE c

\* str.lower()
Lower(s) == [i \in 1..Len(s) |-> LowerChar(s[i])]

\* str.upper()
Upper(s) == [i \in 1..Len(s) |-> UpperChar(s[i])]

\* s[:n] for n >= 0
Prefix(s, n) == SubSeq(s, 1, IF n < Len(s) THEN n ELSE Len(s))

\* s[i-1:] (the suffix that starts at the 1-based position i)
Suffix(s, i) == SubSeq(s, i, Len(s))

\* str.strip()
Strip(s) ==
    LET keep == {i \in 1..Len(s) : ~IsSpace(s[i])}
    IN  IF keep = {} THEN <<>>
        ELSE LET lo == CHOOSE i \in keep : \A j \in keep : i <= j
                 hi == CHOOSE i \in keep : \A j \in keep : j <= i
             IN  SubSeq(s, lo, hi)

\* True when pat occurs in s at the 1-based position i.
MatchAt(s, i, pat) ==
    /\ i >= 1
    /\ i + Len(pat) - 1 <= Len(s)
    /\ SubSeq(s, i, i + Len(pat) - 1) = pat

\* pat in s
Contains(s, pat) == \E i \in 1..(Len(s) + 1) : MatchAt(s, i, pat)

RECURSIVE Join(_, _)
\* sep.join(parts)
Join(parts, sep) ==
    IF parts = <<>> THEN <<>>
    ELSE IF Len(parts) = 1 THEN parts[1]
    ELSE parts[1] \o sep \o Join(Tail(parts), sep)

RECURSIVE SplitLines(_)
\* str.splitlines() on text whose only line break is "\n"
SplitLines(s) ==
    IF s = <<>> THEN <<>>
    ELSE LET brk == {i \in 1..Len(s) : s[i] = "\n"}
         IN  IF brk = {} THEN <<s>>
             ELSE LET k == CHOOSE i \in brk : \A j \in brk : i <= j
                  IN  <<SubSeq(s, 1, k - 1)>> \o SplitLines(Suffix(s, k + 1))

RECURSIVE CollapseSpace(_)
\* re.sub(r"\s+", " ", s)
CollapseSpace(s) ==
    IF s = <<>> THEN <<>>
    ELSE IF IsSpace(s[1])
         THEN LET rest == CollapseSpace(Tail(s))
              IN  IF Len(s) > 1 /\ IsSpace(s[2]) THEN rest ELSE <<" ">> \o rest
         ELSE <<s[1]>> \o CollapseSpace(Tail(s))

RECURSIVE LexLess(_, _)
\* a < b for Python strings (code point order)
LexLess(a, b) ==
    IF b = <<>> THEN FALSE
    ELSE IF a = <<>> THEN TRUE
    ELSE IF a[1] = b[1] THEN LexLess(Tail(a), Tail(b))
    ELSE Ord(a[1]) < Ord(b[1])

RECURSIVE SortedStrings(_)
\* sorted(S) for a set S of strings
SortedStrings(S) ==
    IF S = {} THEN <<>>
    ELSE LET m == CHOOSE x \in S : \A y \in S \ {x} : LexLess(x, y)
         IN  <<m>> \o SortedStrings(S \ {m})


(***************************************************************************)
(* Page texts used as inputs                                               *)
(***************************************************************************)

\* ''
TextEmpty ==
    <<>>

\* '1. Provide conduit'
TextNoteA ==
    <<"1","."," ","P","r","o","v","i","d","e"," ","c","o","n","d","u","i",
     "t">>

\* '1. Provide conduit\n2. Provide grounding'
TextNoteAB ==
    <<"1","."," ","P","r","o","v","i","d","e"," ","c","o","n","d","u","i","t",
     "\n","2","."," ","P","r","o","v","i","d","e"," ","g","r","o","u","n","d",
     "i","n","g">>

\* '1. Provide conduit\n3. Panel by others'
TextNoteC ==
    <<"1","."," ","P","r","o","v","i","d","e"," ","c","o","n","d","u","i","t",
     "\n","3","."," ","P","a","n","e","l"," ","b","y"," ","o","t","h","e","r",
     "s">>

\* 'SECTION 07 21 00\nthermal insulation'
TextSpec1 ==
    <<"S","E","C","T","I","O","N"," ","0","7"," ","2","1"," ","0","0","\n",
     "t","h","e","r","m","a","l"," ","i","n","s","u","l","a","t","i","o","n">>

\* 'SECTION 07 21 00\nmineral wool'
TextSpec1m ==
    <<"S","E","C","T","I","O","N"," ","0","7"," ","2","1"," ","0","0","\n",
     "m","i","n","e","r","a","l"," ","w","o","o","l">>

\* 'SECTION 07 21 00\nthermal insulation\nSECTION 09 29 00\ngypsum board'
TextSpec12 ==
    <<"S","E","C","T","I","O","N"," ","0","7"," ","2","1"," ","0","0","\n",
     "t","h","e","r","m","a","l"," ","i","n","s","u","l","a","t","i","o","n",
     "\n","S","E","C","T","I","O","N"," ","0","9"," ","2","9"," ","0","0",
     "\n","g","y","p","s","u","m"," ","b","o","a","r","d">>

\* 'SECTION 09 29 00\ngypsum board'
TextSpec2 ==
    <<"S","E","C","T","I","O","N"," ","0","9"," ","2","9"," ","0","0","\n",
     "g","y","p","s","u","m"," ","b","o","a","r","d">>

\* 'roof drain overflow'
TextPlain ==
    <<"r","o","o","f"," ","d","r","a","i","n"," ","o","v","e","r","f","l","o",
     "w">>


(***************************************************************************)
(* models.py                                                               *)
(***************************************************************************)

\* Python's None for the Optional[str] fields of PageExtract.
None == <<"None">>

\* bool(x) for an Optional[str]
Truthy(x) == x # None /\ x # <<>>

\* PageExtract; a fingerprint is the set of its one-bits, 0 is {}.
PageExtract(pdf_path, page_num, text, sheet_id, hint, discipline, tables, fp) ==
    [pdf_path |-> pdf_path, page_num |-> page_num, text |-> text,
     sheet_id |-> sheet_id, sheet_title_hint |-> hint,
     discipline |-> discipline, tables |-> tables, fingerprint |-> fp]

DocSet(name, pages) == [name |-> name, pages |-> pages]

\* MatchResult; to_page is NoPage when the page is unmatched.
MatchResult(from_page, to_page, score, confidence, reasons) ==
    [from_page |-> from_page, to_page |-> to_page, score |-> score,
     confidence |-> confidence, reasons |-> reasons]

NoPage == [none |-> TRUE]

(***************************************************************************)
(* match.py                                                                *)
(***************************************************************************)

\* hashlib.sha1(tok).digest()[:8] read big-endian, as the set of its
\* one-bits, for every token of the input texts.
Sha1Table ==
    (<<"b","o","a","r","d">> :>
        {2, 4, 6, 8, 10, 11, 12, 19, 22, 24, 25, 26, 27, 29, 32, 34, 35, 36, 37, 38, 40, 43, 45, 46, 47, 48, 50, 53, 55, 57, 58, 59, 60, 63}) @@
    (<<"c","o","n","d","u","i","t">> :>
        {0, 3, 6, 7, 8, 9, 10, 11, 12, 13, 14, 16, 21, 22, 24, 27, 32, 34, 35, 36, 40, 42, 43, 47, 50, 51, 54, 55, 56, 57, 59, 60}) @@
    (<<"d","r","a","i","n">> :>
        {2, 5, 9, 10, 12, 14, 19, 24, 27, 28, 29, 31, 36, 37, 38, 39, 42, 43, 45, 47, 55, 56, 57, 58, 61}) @@
    (<<"g","r","o","u","n","d","i","n","g">> :>
        {0, 1, 2, 3, 4, 5, 8, 11, 12, 15, 16, 18, 21, 22, 23, 24, 25, 30, 32, 33, 37, 38, 40, 41, 44, 45, 46, 47, 48, 49, 53, 54, 58, 59, 61, 63}) @@
    (<<"g","y","p","s","u","m">> :>
        {1, 2, 3, 4, 5, 7, 8, 12, 13, 14, 16, 28, 29, 31, 32, 35, 37, 38, 39, 40, 42, 44, 46, 50, 51, 52, 56, 60, 63}) @@
    (<<"i","n","s","u","l","a","t","i","o","n">> :>
        {0, 4, 7, 8, 9, 11, 12, 14, 15, 16, 17, 21, 22, 23, 24, 26, 27, 28, 29, 30, 31, 32, 33, 34, 36, 39, 40, 41, 42, 44, 45, 46, 51, 54, 55, 56, 59, 61, 62}) @@
    (<<"m","i","n","e","r","a","l">> :>
        {1, 2, 4, 8, 9, 11, 12, 14, 16, 21, 23, 24, 25, 26, 28, 29, 30, 31, 32, 33, 34, 35, 36, 37, 39, 41, 42, 43, 44, 47, 48, 50, 51, 55, 56, 58, 60, 62}) @@
    (<<"o","t","h","e","r","s">> :>
        {4, 5, 7, 8, 13, 14, 15, 16, 17, 18, 19, 20, 23, 26, 27, 28, 31, 32, 33, 34, 35, 36, 38, 40, 41, 42, 43, 44, 47, 48, 52, 56, 60}) @@
    (<<"o","v","e","r","f","l","o","w">> :>
        {1, 2, 3, 4, 6, 7, 9, 10, 12, 13, 14, 16, 17, 18, 19, 21, 24, 27, 28, 30, 31, 32, 36, 39, 40, 42, 51, 53, 54, 55, 60}) @@
    (<<"p","a","n","e","l">> :>
        {0, 7, 8, 11, 13, 15, 16, 20, 21, 23, 24, 26, 29, 30, 31, 33, 36, 37, 38, 40, 41, 43, 46, 47, 54, 60, 61, 62}) @@
    (<<"p","r","o","v","i","d","e">> :>
        {0, 1, 2, 4, 7, 10, 11, 16, 18, 19, 20, 23, 26, 30, 32, 33, 34, 35, 36, 40, 42, 43, 44, 47, 49, 50, 52, 53, 55, 57, 59, 62}) @@
    (<<"r","o","o","f">> :>
        {4, 5, 6, 9, 10, 15, 16, 19, 20, 24, 33, 34, 36, 38, 39, 41, 42, 45, 46, 50, 51, 52, 53, 54, 56, 61, 62, 63}) @@
    (<<"s","e","a","l">> :>
        {1, 7, 8, 10, 13, 17, 19, 20, 21, 22, 30, 32, 33, 35, 37, 38, 39, 40, 41, 42, 44, 46, 47, 49, 50, 51, 56, 57, 58, 59}) @@
    (<<"s","e","c","t","i","o","n">> :>
        {0, 4, 5, 7, 9, 10, 11, 13, 14, 16, 20, 21, 22, 28, 34, 35, 36, 37, 39, 40, 41, 42, 43, 45, 51, 52, 61}) @@
    (<<"t","h","e","r","m","a","l">> :>
        {2, 5, 6, 10, 11, 12, 16, 19, 21, 24, 25, 26, 28, 30, 31, 35, 38, 43, 44, 48, 52, 54, 56, 58, 59, 62}) @@
    (<<"w","o","o","l">> :>
        {0, 2, 8, 11, 13, 19, 20, 25, 26, 29, 31, 35, 37, 38, 40, 41, 43, 49, 50, 53, 55, 56, 57, 58, 61, 63})

Sha1Hi64(tok) == Sha1Table[tok]

RECURSIVE Runs(_, _)
\* The maximal runs of [a-z0-9] in s, in order; cur is the run being read.
Runs(s, cur) ==
    IF s = <<>> THEN (IF cur = <<>> THEN <<>> ELSE <<cur>>)
    ELSE IF IsLower(s[1]) \/ IsDigit(s[1])
         THEN Runs(Tail(s), Append(cur, s[1]))
         ELSE (IF cur = <<>> THEN <<>> ELSE <<cur>>) \o Runs(Tail(s), <<>>)

\* re.findall(r"[a-z0-9]{3,}", text.lower())
Tokenize(text) == SelectSeq(Runs(Lower(text), <<>>), LAMBDA r : Len(r) >= 3)

TokenCap == 5000

FingerprintBits == 64

\* simhash64, lines 25-30: bit i is set when the tokens that have it set are
\* no fewer than those that do not (vec[i] >= 0); hashes are the tokens'
\* hashes.
VecSign(hashes) ==
    {i \in 0..(FingerprintBits - 1) :
        Cardinality({k \in 1..Len(hashes) : i \in hashes[k]})
        - Cardinality({k \in 1..Len(hashes) : i \notin hashes[k]}) >= 0}

TokenHashes(toks) == [k \in 1..Len(toks) |-> Sha1Hi64(toks[k])]

\* simhash64 that lets every token vote, also those after the TokenCap-th.
SimhashOfTokens_Uncapped(toks) == VecSign(TokenHashes(toks))

\* simhash64, lines 21-30, for the list toks that _tokenize returned: only
\* the first TokenCap tokens vote (line 22).
SimhashOfTokens(toks) == VecSign(TokenHashes(Prefix(toks, TokenCap)))

simhash64(text) == SimhashOfTokens(Tokenize(text))

\* hamming_similarity that counts the bits set in exactly one of a and b
\* that are set in a.
hamming_similarity_OneSided(a, b) ==
    FingerprintBits - Cardinality(a \ b)

\* hamming_similarity(a, b) * FingerprintBits
hamming_similarity(a, b) ==
    FingerprintBits - Cardinality((a \ b) \cup (b \ a))

VARIABLES
    gmp,        \* run: the ingested GMP set
    bid,        \* run: the ingested BID set
    addenda,    \* run: the ingested ADDENDA set, NoSet when there is none
    config,     \* run: the loaded configuration
    fuzz,       \* what rapidfuzz's WRatio answers for two different titles
    pc,         \* position in run
    to_name,    \* match_pages: which set is the to_set of the current call
    by_sheet,   \* match_pages: index of the to_set's pages by sheet_id
    results,    \* match_pages: the results list
    todo,       \* compare_sets: the matches its loop has still to visit
    rows,       \* compare_sets: the rows list
    matches,    \* run: matches
    changes,    \* run: changes
    inventory,  \* run: inventory
    call_args,  \* a direct call of one function: its arguments
    call_result, \* a direct call of one function: what it returned
    ai_config,  \* ui_app: the AiConfig of the AI scan, NoAiConfig before it
    reviewed,   \* ai_scan_matches: the reviewed counter
    ai_findings \* ui_app: st.session_state["ai_findings"]

\* The state of the AI scan, which the run itself never touches.
ai_vars == <<ai_config, reviewed, ai_findings>>

vars == <<gmp, bid, addenda, config, fuzz, pc, to_name, by_sheet, results,
          todo, rows, matches, changes, inventory, call_args, call_result,
          ai_vars>>

NoAiConfig == [absent |-> TRUE]

\* Scores are kept as integers: a score s of the program is s * ScoreScale.
ScoreScale == 100 * FingerprintBits

\* weights.get(key, default)
WeightGet(weights, key, default) ==
    IF key \in DOMAIN weights THEN weights[key] ELSE default

\* fuzz.WRatio(a, b): 0 when a string is empty, 100 for equal strings.
WRatio(a, b) ==
    IF a = <<>> \/ b = <<>> THEN 0
    ELSE IF a = b THEN 100
    ELSE fuzz

\* f"{num/den:.2f}" as hundredths (round half to even, num/den is exact in
\* binary for the denominators used).
Format2f(num, den) ==
    LET q == (100 * num) \div den
        r == (100 * num) % den
    IN  IF 2 * r > den \/ (2 * r = den /\ q % 2 = 1) THEN q + 1 ELSE q

\* The fingerprint used for a page: src.fingerprint or simhash64(src.text)
FingerprintOf(page) ==
    IF page.fingerprint # {} THEN page.fingerprint ELSE simhash64(page.text)

\* _composite_score, lines 43-45: the sheet identifier signal.
SheetIdPart(src, dst, weights) ==
    IF /\ Truthy(src.sheet_id)
       /\ Truthy(dst.sheet_id)
       /\ src.sheet_id = dst.sheet_id
    THEN [score |-> WeightGet(weights, "sheet_id_exact", 60) * ScoreScale,
          reasons |-> << <<"sheet_id exact">> >>]
    ELSE [score |-> 0, reasons |-> <<>>]

\* (src.sheet_title_hint or "").strip().upper()
TitleOf(page) ==
    Upper(Strip(IF Truthy(page.sheet_title_hint)
                THEN page.sheet_title_hint ELSE <<>>))

\* TitleScore with the title contribution subtracted instead of added.
TitleScore_Subtract(src_title, dst_title, title_pct, weights) ==
    [score |-> 0 - title_pct * WeightGet(weights, "title_similarity", 20)
                     * (ScoreScale \div 100),
     reasons |-> << <<"title", title_pct>> >>]

\* _composite_score, lines 50-56: the title signal of two titles whose
\* WRatio is title_pct.
TitleScore(src_title, dst_title, title_pct, weights) ==
    IF src_title # <<>> /\ src_title = dst_title
    THEN [score |-> title_pct * WeightGet(weights, "title_similarity", 20)
                        * (ScoreScale \div 100) + 10 * ScoreScale,
          reasons |-> << <<"title exact">>, <<"title", title_pct>> >>]
    ELSE [score |-> title_pct * WeightGet(weights, "title_similarity", 20)
                        * (ScoreScale \div 100),
          reasons |-> << <<"title", title_pct>> >>]

TitlesPart(src_title, dst_title, weights) ==
    TitleScore(src_title, dst_title, WRatio(src_title, dst_title), weights)

\* _composite_score, lines 47-56: the title signal.
TitlePart(src, dst, weights) ==
    IF Truthy(src.sheet_title_hint) \/ Truthy(dst.sheet_title_hint)
    THEN TitlesPart(TitleOf(src), TitleOf(dst), weights)
    ELSE [score |-> 0, reasons |-> <<>>]

\* DisciplinePart with the equality test inverted.
DisciplinePart_Inverted(src, dst, weights) ==
    IF src.discipline # "Unknown" /\ src.discipline # dst.discipline
    THEN [score |-> WeightGet(weights, "discipline_similarity", 10) * ScoreScale,
          reasons |-> << <<"discipline">> >>]
    ELSE [score |-> 0, reasons |-> <<>>]

\* _composite_score, lines 58-60: the discipline signal.
DisciplinePart(src, dst, weights) ==
    IF src.discipline # "Unknown" /\ src.discipline = dst.discipline
    THEN [score |-> WeightGet(weights, "discipline_similarity", 10) * ScoreScale,
          reasons |-> << <<"discipline">> >>]
    ELSE [score |-> 0, reasons |-> <<>>]

\* _composite_score, lines 63-66: the fingerprint signal of a similarity
\* fp_sim (in FingerprintBits-ths).
FingerprintScore(fp_sim, weights) ==
    [score |-> fp_sim * WeightGet(weights, "fingerprint_similarity", 10)
                   * (ScoreScale \div FingerprintBits),
     reasons |-> << <<"fingerprint", Format2f(fp_sim, FingerprintBits)>> >>]

\* _composite_score, lines 62-66: the fingerprint signal.
FingerprintPart(src, dst, weights) ==
    FingerprintScore(hamming_similarity(FingerprintOf(src), FingerprintOf(dst)),
                     weights)

\* score += ...; reasons.append(...) over the four signals in order.
SumParts(p) ==
    [score |-> p[1].score + p[2].score + p[3].score + p[4].score,
     reasons |-> p[1].reasons \o p[2].reasons \o p[3].reasons \o p[4].reasons]

\* _composite_score returns the pair (score, reasons).
_composite_score(src, dst, weights) ==
    SumParts(<<SheetIdPart(src, dst, weights), TitlePart(src, dst, weights),
               DisciplinePart(src, dst, weights),
               FingerprintPart(src, dst, weights)>>)

\* _confidence with the Med test placed before the High test.
_confidence_MedFirst(score) ==
    IF score >= 55 * ScoreScale THEN "Med"
    ELSE IF score >= 80 * ScoreScale THEN "High"
    ELSE "Low"

_confidence(score) ==
    IF score >= 80 * ScoreScale THEN "High"
    ELSE IF score >= 55 * ScoreScale THEN "Med"
    ELSE "Low"

\* PoolOf that takes the subset of a source page of unknown discipline too.
PoolOf_AnyDiscipline(src, to_pages, subset) ==
    IF subset # <<>> THEN subset ELSE to_pages

\* _candidate_pool, lines 83-86: subset is the to_set's pages of the source
\* page's discipline.
PoolOf(src, to_pages, subset) ==
    IF src.discipline # "Unknown" /\ subset # <<>> THEN subset ELSE to_pages

_candidate_pool(src, to_pages, index) ==
    IF Truthy(src.sheet_id) /\ src.sheet_id \in DOMAIN index
    THEN index[src.sheet_id]
    ELSE PoolOf(src, to_pages,
                SelectSeq(to_pages, LAMBDA p : p.discipline = src.discipline))

\* match_pages, lines 91-94: the index of the to_set's pages by sheet_id.
BuildBySheet(to_pages) ==
    LET ids == {to_pages[k].sheet_id : k \in {j \in 1..Len(to_pages) :
                                              Truthy(to_pages[j].sheet_id)}}
    IN  [sid \in ids |-> SelectSeq(to_pages, LAMBDA p : p.sheet_id = sid)]

\* Better that also replaces the best so far on an equal score.
Better_OnEqual(candidate, sc, best) ==
    IF sc.score >= best.score
    THEN [page |-> candidate, score |-> sc.score, reasons |-> sc.reasons]
    ELSE best

\* match_pages, lines 104-107: the best so far after a candidate that
\* scored sc.
Better(candidate, sc, best) ==
    IF sc.score > best.score
    THEN [page |-> candidate, score |-> sc.score, reasons |-> sc.reasons]
    ELSE best

RECURSIVE ScanCandidates(_, _, _, _)
\* match_pages, lines 99-107: the scan of the candidates; best is the triple
\* (best_page, best_score, best_reasons) so far.
ScanCandidates(src, candidates, weights, best) ==
    IF candidates = <<>> THEN best
    ELSE ScanCandidates(src, Tail(candidates), weights,
             Better(candidates[1],
                    _composite_score(src, candidates[1], weights), best))

\* ResultOf that reports the initial best_score for an unmatched page.
ResultOf_KeepSentinel(src, best) ==
    MatchResult(src, best.page, best.score, _confidence(best.score),
                best.reasons)

\* match_pages, lines 108-111: the MatchResult of a source page whose scan
\* ended with best.
ResultOf(src, best) ==
    IF best.page = NoPage
    THEN MatchResult(src, NoPage, 0, "Low", << <<"no candidate">> >>)
    ELSE MatchResult(src, best.page, best.score, _confidence(best.score),
                     best.reasons)

\* match_pages, lines 98-111: the MatchResult appended for one source page.
MatchOne(src, to_pages, index, weights) ==
    ResultOf(src,
        ScanCandidates(src, _candidate_pool(src, to_pages, index), weights,
            [page |-> NoPage, score |-> -ScoreScale, reasons |-> <<>>]))

(***************************************************************************)
(* diff_notes.py                                                           *)
(***************************************************************************)

\* re.match(r"^(\(?\d{1,3}\)?[.)]|[A-Z][.)]|[-•])\s+", line)
IsEnumerated(line) ==
    LET at(i) == IF i <= Len(line) THEN line[i] ELSE "\n"
        has(i) == i <= Len(line)
        closer(i) == has(i) /\ at(i) \in {".", ")"}
        space(i) == has(i) /\ IsSpace(at(i))
        digits(i, n) == \A k \in i..(i + n - 1) : has(k) /\ IsDigit(at(k))
        numbered ==
            \E open \in {0, 1}, n \in 1..3, close \in {0, 1} :
                /\ open = 1 => (has(1) /\ at(1) = "(")
                /\ digits(open + 1, n)
                /\ close = 1 => (has(open + n + 1) /\ at(open + n + 1) = ")")
                /\ closer(open + n + close + 1)
                /\ space(open + n + close + 2)
        lettered == has(1) /\ IsUpper(at(1)) /\ closer(2) /\ space(3)
        dashed == has(1) /\ at(1) = "-" /\ space(2)
    IN  numbered \/ lettered \/ dashed

NoteWords ==
    {<<"k","e","y","n","o","t","e">>,
     <<"g","e","n","e","r","a","l"," ","n","o","t","e","s">>,
     <<"n","o","t","e">>}

\* IsNoteHeading for a line and its lower-cased form.
HeadingIn(line, lower) ==
    \E w \in NoteWords :
        /\ MatchAt(lower, 1, w)
        /\ Len(line) = Len(w) \/ ~IsWordChar(line[Len(w) + 1])

\* re.match(r"^(KEYNOTE|GENERAL NOTES|NOTE)\b", line, flags=re.IGNORECASE)
IsNoteHeading(line) == HeadingIn(line, Lower(line))

\* re.sub(r"\s+", " ", bullet).lower()
BulletKey(bullet) == Lower(CollapseSpace(bullet))

RECURSIVE DedupeBullets(_, _)
\* split_note_bullets, lines 19-22: the first bullet is kept when its key is
\* new, and the loop goes on with the bullets after it.
KeepNew(bullets, key, seen) ==
    IF key \in seen THEN DedupeBullets(Tail(bullets), seen)
    ELSE <<bullets[1]>> \o DedupeBullets(Tail(bullets), seen \cup {key})

\* split_note_bullets, lines 16-22: first bullet of every key, in order.
DedupeBullets(bullets, seen) ==
    IF bullets = <<>> THEN <<>>
    ELSE KeepNew(bullets, BulletKey(bullets[1]), seen)

NoteBulletMinLen == 12

\* [ln.strip() for ln in lines]
StripAll(lines) == [k \in 1..Len(lines) |-> Strip(lines[k])]

\* split_note_bullets, lines 8-15: the stripped non-empty lines that are
\* long enough and enumerated or headed.
BulletLines(text, min_len) ==
    SelectSeq(StripAll(SplitLines(text)), LAMBDA ln :
        /\ ln # <<>>
        /\ Len(ln) >= min_len
        /\ IsEnumerated(ln) \/ IsNoteHeading(ln))

split_note_bullets(text, min_len) == DedupeBullets(BulletLines(text, min_len), {})

\* StrippedSet that keeps the items as they are passed.
StrippedSet_Untrimmed(items) == {items[k] : k \in 1..Len(items)} \ {<<>>}

\* {x.strip() for x in items if x.strip()}
StrippedSet(items) == {Strip(items[k]) : k \in 1..Len(items)} \ {<<>>}

\* SortedDelta that reports every item of after as added.
SortedDelta_AllAdded(before_set, after_set) ==
    [added |-> SortedStrings(after_set),
     removed |-> SortedStrings(before_set \ after_set)]

\* (sorted(after_set - before_set), sorted(before_set - after_set))
SortedDelta(before_set, after_set) ==
    [added |-> SortedStrings(after_set \ before_set),
     removed |-> SortedStrings(before_set \ after_set)]

\* diff_note_lists returns the pair (added, removed).
diff_note_lists(before, after) ==
    SortedDelta(StrippedSet(before), StrippedSet(after))

(***************************************************************************)
(* diff_tables.py                                                          *)
(***************************************************************************)

\* normalize_cell; a cell is never None after ingestion.
normalize_cell(value) == CollapseSpace(Strip(value))

\* " | "
CellSep == <<" ", "|", " ">>

\* [normalize_cell(c) for c in row if normalize_cell(c)]
RowCells(row) ==
    SelectSeq([k \in 1..Len(row) |-> normalize_cell(row[k])],
              LAMBDA c : c # <<>>)

\* " | ".join(cells) for every row that is not an empty list
RowSignatures(filled) == [k \in 1..Len(filled) |-> Join(RowCells(filled[k]), CellSep)]

\* table_signature: one signature per non-empty row list.
table_signature(table) ==
    RowSignatures(SelectSeq(table, LAMBDA row : row # <<>>))

\* The set of the row signatures of all tables of a page.
AllRows(tables) ==
    UNION {SeqRange(table_signature(tables[k])) : k \in 1..Len(tables)}

\* RowDelta that counts the rows of each side instead of the differences.
RowDelta_CountAll(before_rows, after_rows) ==
    [added |-> Cardinality(after_rows), removed |-> Cardinality(before_rows)]

\* (len(after_rows - before_rows), len(before_rows - after_rows))
RowDelta(before_rows, after_rows) ==
    [added |-> Cardinality(after_rows \ before_rows),
     removed |-> Cardinality(before_rows \ after_rows)]

\* diff_tables returns the pair (rows added, rows removed).
diff_tables(before_tables, after_tables) ==
    RowDelta(AllRows(before_tables), AllRows(after_tables))

(***************************************************************************)
(* String constants of the source                                          *)
(***************************************************************************)

\* 'section'
LitSection ==
    <<"s","e","c","t","i","o","n">>

\* 'UNKNOWN'
LitUnknownKey ==
    <<"U","N","K","N","O","W","N">>

\* ':p'
LitPageSep ==
    <<":","p">>

\* 'Added note items on '
LitAddedNotes ==
    <<"A","d","d","e","d"," ","n","o","t","e"," ","i","t","e","m","s"," ","o",
     "n"," ">>

\* 'Removed note items on '
LitRemovedNotes ==
    <<"R","e","m","o","v","e","d"," ","n","o","t","e"," ","i","t","e","m","s",
     " ","o","n"," ">>

\* 'Table delta on '
LitTableDelta ==
    <<"T","a","b","l","e"," ","d","e","l","t","a"," ","o","n"," ">>

\* ': '
LitColon ==
    <<":"," ">>

\* ': +'
LitPlus ==
    <<":"," ","+">>

\* ' / -'
LitMinus ==
    <<" ","/"," ","-">>

\* 'Spec section added: '
LitSpecAdded ==
    <<"S","p","e","c"," ","s","e","c","t","i","o","n"," ","a","d","d","e","d",
     ":"," ">>

\* 'Sheet appears in '
LitSheetAppears ==
    <<"S","h","e","e","t"," ","a","p","p","e","a","r","s"," ","i","n"," ">>

\* 'Sheet missing from '
LitSheetMissing ==
    <<"S","h","e","e","t"," ","m","i","s","s","i","n","g"," ","f","r","o","m",
     " ">>

\* 'notes_added'
LitNotesAdded ==
    <<"n","o","t","e","s","_","a","d","d","e","d">>

\* 'notes_removed'
LitNotesRemoved ==
    <<"n","o","t","e","s","_","r","e","m","o","v","e","d">>

\* 'tables'
LitTables ==
    <<"t","a","b","l","e","s">>

\* 'spec_add'
LitSpecAdd ==
    <<"s","p","e","c","_","a","d","d">>

\* 'Added'
LitAdded ==
    <<"A","d","d","e","d">>

\* 'Removed'
LitRemoved ==
    <<"R","e","m","o","v","e","d">>

\* 'GMP'
GMP ==
    <<"G","M","P">>

\* 'BID'
BID ==
    <<"B","I","D">>

\* 'ADDENDA'
ADDENDA ==
    <<"A","D","D","E","N","D","A">>


(***************************************************************************)
(* diff_specs.py                                                           *)
(***************************************************************************)

RECURSIVE SkipSpaces(_, _)
\* The first position at or after i that holds no whitespace.
SkipSpaces(s, i) ==
    IF i <= Len(s) /\ IsSpace(s[i]) THEN SkipSpaces(s, i + 1) ELSE i

\* \d{2} at position j
TwoDigits(text, j) ==
    /\ j + 1 <= Len(text)
    /\ IsDigit(text[j])
    /\ IsDigit(text[j + 1])

\* \s at position j
SpaceAt(text, j) == j <= Len(text) /\ IsSpace(text[j])

\* \d{2}\s+ at position j: the position after it, or 0.
DigitsGap(text, j) ==
    IF TwoDigits(text, j) /\ SpaceAt(text, j + 2)
    THEN SkipSpaces(text, j + 2)
    ELSE 0

\* (\d{2}\s+\d{2}\s+\d{2}) at d1, whose second and third groups of digits
\* are looked for at d2 and d3: the span of the group, or <<>>.
NumberSpan(text, d1, d2, d3) ==
    IF d2 # 0 /\ d3 # 0 /\ TwoDigits(text, d3) THEN <<d1, d3 + 1>> ELSE <<>>

NumberAt(text, d1, d2) ==
    NumberSpan(text, d1, d2, IF d2 = 0 THEN 0 ELSE DigitsGap(text, d2))

\* The configured heading pattern r"SECTION\s+(\d{2}\s+\d{2}\s+\d{2})",
\* matched with re.IGNORECASE at position i of text, whose lower-cased form
\* is lower: the span of group 1, or <<>>.
SectionPatternAt(text, lower, i) ==
    IF MatchAt(lower, i, LitSection) /\ SpaceAt(text, i + 7)
    THEN Bind(SkipSpaces(text, i + 7),
              LAMBDA d1 : NumberAt(text, d1, DigitsGap(text, d1)))
    ELSE <<>>

PatSectionNumber == "SECTION\\s+(\\d{2}\\s+\\d{2}\\s+\\d{2})"

\* A heading pattern whose group is never closed: re.compile raises re.error.
PatUnterminated == "SECTION\\s+(\\d{2}"

\* The patterns of the configurations that re.compile accepts.
PatternCompiles(pat) == pat # PatUnterminated

\* (m.start(), re.sub(r"\s+", " ", m.group(1).strip())) for a match at the
\* 1-based position i whose group 1 spans g; start is counted from 0.
SectionStart(text, i, g) ==
    [start |-> i - 1, sec |-> CollapseSpace(Strip(SubSeq(text, g[1], g[2])))]

\* The matches of the heading pattern in text, by position.
SpansOf(text, lower) ==
    [i \in 1..Len(text) |-> SectionPatternAt(text, lower, i)]

StartsOf(text, spans) ==
    [k \in 1..Len(spans) |->
        IF spans[k] = <<>> THEN <<>> ELSE SectionStart(text, k, spans[k])]

\* re.finditer(pat, text, flags=re.IGNORECASE) as the list of
\* (m.start(), normalised section key); pat is the one pattern that the
\* configurations carry, PatSectionNumber.
FindSections(pat, text) ==
    SelectSeq(StartsOf(text, SpansOf(text, Lower(text))), LAMBDA st : st # <<>>)

RECURSIVE AllStarts(_, _)
\* extract_spec_sections, lines 8-12
AllStarts(patterns, text) ==
    IF patterns = <<>> THEN <<>>
    ELSE FindSections(patterns[1], text) \o AllStarts(Tail(patterns), text)

RECURSIVE SortByStart(_)
\* starts.sort(key=lambda pair: pair[0]); the sort is stable.
SortByStart(starts) ==
    IF starts = <<>> THEN <<>>
    ELSE LET k == CHOOSE i \in 1..Len(starts) :
                      \A j \in 1..Len(starts) :
                          \/ starts[i].start < starts[j].start
                          \/ (starts[i].start = starts[j].start /\ i <= j)
         IN  <<starts[k]>> \o
             SortByStart(SubSeq(starts, 1, k - 1) \o
                         SubSeq(starts, k + 1, Len(starts)))

\* PutLonger that also replaces a chunk of the same length.
PutLonger_OrEqual(out, sec, chunk) ==
    IF sec \notin DOMAIN out \/ Len(chunk) >= Len(out[sec])
    THEN [s \in DOMAIN out \cup {sec} |-> IF s = sec THEN chunk ELSE out[s]]
    ELSE out

\* extract_spec_sections, lines 20-21: a chunk replaces a shorter one.
PutLonger(out, sec, chunk) ==
    IF sec \notin DOMAIN out \/ Len(chunk) > Len(out[sec])
    THEN [s \in DOMAIN out \cup {sec} |-> IF s = sec THEN chunk ELSE out[s]]
    ELSE out

\* extract_spec_sections, line 18: where the chunk of the idx-th start ends.
ChunkEnd(starts, idx, text) ==
    IF idx + 1 <= Len(starts) THEN starts[idx + 1].start ELSE Len(text)

RECURSIVE FillSections(_, _, _, _)
\* extract_spec_sections, lines 17-21, from the idx-th start on.
FillSections(starts, idx, text, out) ==
    IF idx > Len(starts) THEN out
    ELSE FillSections(starts, idx + 1, text,
             PutLonger(out, starts[idx].sec,
                       Strip(SubSeq(text, starts[idx].start + 1,
                                    ChunkEnd(starts, idx, text)))))

\* extract_spec_sections, lines 13-22, for the collected starts.
SectionsOf(text, starts) ==
    IF starts = <<>>
    THEN [s \in {LitUnknownKey} |-> Strip(text)]
    ELSE FillSections(SortByStart(starts), 1, text, [s \in {} |-> <<>>])

\* extract_spec_sections returns the dict section key -> chunk.
extract_spec_sections(text, patterns) ==
    SectionsOf(text, AllStarts(patterns, text))

(***************************************************************************)
(* identify.py                                                             *)
(***************************************************************************)

\* The (prefix, discipline) mapping of guess_discipline, in dict order.
DisciplineMapping ==
    << <<<<"A">>, "Architectural">>, <<<<"S">>, "Structural">>,
       <<<<"M">>, "Mechanical">>, <<<<"M","E">>, "Mechanical">>,
       <<<<"P">>, "Plumbing">>, <<<<"P","L">>, "Plumbing">>,
       <<<<"E">>, "Electrical">>, <<<<"E","L">>, "Electrical">>,
       <<<<"F","P">>, "Fire Protection">>, <<<<"F","A">>, "Fire Alarm">>,
       <<<<"C">>, "Civil">>, <<<<"L">>, "Landscape">> >>

guess_discipline(sheet_id) ==
    IF ~Truthy(sheet_id) THEN "Unknown"
    ELSE LET dash == {i \in 1..Len(sheet_id) : sheet_id[i] = "-"}
             cut == IF dash = {} THEN Len(sheet_id)
                    ELSE (CHOOSE i \in dash : \A j \in dash : i <= j) - 1
             prefix == Upper(SubSeq(sheet_id, 1, cut))
             hits == {k \in 1..Len(DisciplineMapping) :
                         MatchAt(prefix, 1, DisciplineMapping[k][1])}
         IN  IF hits = {} THEN "Unknown"
             ELSE DisciplineMapping[CHOOSE k \in hits :
                                        \A j \in hits : k <= j][2]

\* re.sub(r"\s+", "", sheet_id)
RemoveSpace(s) == SelectSeq(s, LAMBDA c : ~IsSpace(c))

\* str.replace(old, new) for single characters
ReplaceChar(s, old, new) ==
    [k \in 1..Len(s) |-> IF s[k] = old THEN new ELSE s[k]]

\* The length of the run of upper-case letters that s begins with.
RECURSIVE LeadingLetters(_)
LeadingLetters(s) ==
    IF s = <<>> \/ ~IsUpper(s[1]) THEN 0 ELSE 1 + LeadingLetters(Tail(s))

\* \d[\dA-Z.]*$ on the whole of s
IsSheetSuffix(s) ==
    /\ s # <<>>
    /\ IsDigit(s[1])
    /\ \A k \in 1..Len(s) : IsDigit(s[k]) \/ IsUpper(s[k]) \/ s[k] = "."

NoGroups == [none |-> TRUE]

\* The groups of ^([A-Z]{1,4})-?(\d[\dA-Z.]*)$ with a prefix of n letters: the
\* prefix is followed by a hyphen or a digit, so it is the whole run of
\* leading letters.
GroupsAfter(candidate, n) ==
    IF n < 1 \/ n > 4 \/ n = Len(candidate) THEN NoGroups
    ELSE IF IsSheetSuffix(SubSeq(candidate,
                                 IF candidate[n + 1] = "-" THEN n + 2 ELSE n + 1,
                                 Len(candidate)))
         THEN [prefix |-> SubSeq(candidate, 1, n),
               suffix |-> SubSeq(candidate,
                                 IF candidate[n + 1] = "-" THEN n + 2 ELSE n + 1,
                                 Len(candidate))]
         ELSE NoGroups

\* re.match(r"^([A-Z]{1,4})-?(\d[\dA-Z.]*)$", candidate)
SheetIdGroups(candidate) == GroupsAfter(candidate, LeadingLetters(candidate))

\* normalize_sheet_id, lines 20-23
CanonicalOf(candidate, groups) ==
    IF groups = NoGroups THEN candidate
    ELSE groups.prefix \o <<"-">> \o groups.suffix

\* Canonical that keeps the candidate when it holds no hyphen.
Canonical_AsSpelled(candidate) ==
    IF \E k \in 1..Len(candidate) : candidate[k] = "-"
    THEN CanonicalOf(candidate, SheetIdGroups(candidate))
    ELSE candidate

Canonical(candidate) == CanonicalOf(candidate, SheetIdGroups(candidate))

\* normalize_sheet_id(sheet_id)
normalize_sheet_id(sheet_id) ==
    Canonical(ReplaceChar(Upper(RemoveSpace(sheet_id)), "_", "-"))

(***************************************************************************)
(* cli.py                                                                  *)
(***************************************************************************)

\* dict.get(key, default) on a configuration mapping
CfgGet(mapping, key, default) ==
    IF key \in DOMAIN mapping THEN mapping[key] ELSE default

EmptyMap == [k \in {} |-> 0]

\* "|"
LitBar == <<"|">>

\* short_hash(*parts): SHA-1 is taken to be collision free on the inputs of
\* a run, so an identifier is identified with the text that is hashed,
\* "|".join(parts).
short_hash(parts) == Join(parts, LitBar)

RECURSIVE IntToStr(_)
\* str(n) for n >= 0
IntToStr(n) ==
    IF n < 10 THEN <<DigitChars[n + 1]>>
    ELSE IntToStr(n \div 10) \o <<DigitChars[(n % 10) + 1]>>

RECURSIVE JoinNames(_, _)
\* sep.join(names) for names kept as whole strings
JoinNames(names, sep) ==
    IF names = <<>> THEN ""
    ELSE IF Len(names) = 1 THEN names[1]
    ELSE names[1] \o sep \o JoinNames(Tail(names), sep)

\* any(term.lower() in text_lower for term in terms)
AnyTermIn(terms, text_lower) ==
    \E k \in 1..Len(terms) : Contains(text_lower, Lower(terms[k]))

GroupsOf(items) == [k \in 1..Len(items) |-> items[k].group]

\* apply_flags, lines 40-43, for the lower-cased text; items is the list of
\* (group, terms) items of config["flags"] in dict order.
FlagsIn(items, text_lower) ==
    GroupsOf(SelectSeq(items, LAMBDA item : AnyTermIn(item.terms, text_lower)))

apply_flags(cfg, text) == FlagsIn(CfgGet(cfg, "flags", <<>>), Lower(text))

ResponsibilityPhrases ==
    {<<"c","o","n","t","r","a","c","t","o","r"," ","s","h","a","l","l">>,
     <<"p","r","o","v","i","d","e">>,
     <<"i","n","c","l","u","d","e">>,
     <<"b","y"," ","o","t","h","e","r","s">>}

\* HasResponsibility for a text and its lower-cased form.
ResponsibilityIn(after, lower) ==
    \E ph \in ResponsibilityPhrases : \E i \in 1..Len(after) :
        /\ MatchAt(lower, i, ph)
        /\ i = 1 \/ ~IsWordChar(after[i - 1])
        /\ i + Len(ph) > Len(after) \/ ~IsWordChar(after[i + Len(ph)])

\* re.search(r"\b(contractor shall|provide|include|by others)\b", after,
\*           re.IGNORECASE)
HasResponsibility(after) == ResponsibilityIn(after, Lower(after))

ImpactCap == 100

\* min(score, 100)
CapScore(score) == IF score < ImpactCap THEN score ELSE ImpactCap

\* ImpactOf with the flags rule reported before the table rule.
ImpactOf_FlagsFirst(r1, r2, r3, r4, flags) ==
    [score |-> CapScore((IF r1 THEN 20 ELSE 0) + (IF r2 THEN 20 ELSE 0)
                        + (IF r3 THEN 15 ELSE 0) + (IF r4 THEN 10 ELSE 0)),
     rationale |-> JoinNames(
         (IF r1 THEN <<"sheet/spec presence changed">> ELSE <<>>)
         \o (IF r3 THEN <<"flags: " \o JoinNames(flags, ", ")>> ELSE <<>>)
         \o (IF r2 THEN <<"schedule row delta">> ELSE <<>>)
         \o (IF r4 THEN <<"responsibility language changed">> ELSE <<>>),
         "; ")]

\* compute_impact, lines 49-61, for the outcomes r1..r4 of its four tests.
ImpactOf(r1, r2, r3, r4, flags) ==
    [score |-> CapScore((IF r1 THEN 20 ELSE 0) + (IF r2 THEN 20 ELSE 0)
                        + (IF r3 THEN 15 ELSE 0) + (IF r4 THEN 10 ELSE 0)),
     rationale |-> JoinNames(
         (IF r1 THEN <<"sheet/spec presence changed">> ELSE <<>>)
         \o (IF r2 THEN <<"schedule row delta">> ELSE <<>>)
         \o (IF r3 THEN <<"flags: " \o JoinNames(flags, ", ")>> ELSE <<>>)
         \o (IF r4 THEN <<"responsibility language changed">> ELSE <<>>),
         "; ")]

\* compute_impact returns the pair (score, rationale).
compute_impact(change_type, flags, before, after, table_delta) ==
    ImpactOf(change_type \in {"Added", "Removed"}, table_delta, flags # <<>>,
             HasResponsibility(after), flags)

ChangeRow(change_id, set_from, set_to, discipline, doc_type, reference, change_type, change_summary, before_snippet, after_snippet, confidence, auto_flags, impact_score, impact_rationale) ==
    [change_id |-> change_id, set_from |-> set_from, set_to |-> set_to,
     discipline |-> discipline, doc_type |-> doc_type,
     reference |-> reference, change_type |-> change_type,
     change_summary |-> change_summary, before_snippet |-> before_snippet,
     after_snippet |-> after_snippet, confidence |-> confidence,
     auto_flags |-> auto_flags, impact_score |-> impact_score,
     impact_rationale |-> impact_rationale]

\* Path(pdf_path).name
BaseName(path) ==
    LET slash == {i \in 1..Len(path) : path[i] = "/"}
    IN  IF slash = {} THEN path
        ELSE Suffix(path, (CHOOSE i \in slash : \A j \in slash : j <= i) + 1)

\* {p.sheet_id for p in pages if p.sheet_id}
SheetIds(pages) ==
    {pages[k].sheet_id : k \in {j \in 1..Len(pages) : Truthy(pages[j].sheet_id)}}

\* inventory_changes, lines 89-92: the rows of the sorted added and removed
\* sheet identifiers.
InventoryRows(set_from, set_to, added, removed) ==
    [k \in 1..Len(added) |->
        ChangeRow(short_hash(<<set_from.name, set_to.name, added[k],
                               LitAdded>>),
                  set_from.name, set_to.name, guess_discipline(added[k]),
                  "Drawing", added[k], "Added",
                  LitSheetAppears \o set_to.name \o LitColon \o added[k],
                  <<>>, <<>>, "High", "", 25, "new sheet")]
    \o
    [k \in 1..Len(removed) |->
        ChangeRow(short_hash(<<set_from.name, set_to.name, removed[k],
                               LitRemoved>>),
                  set_from.name, set_to.name, guess_discipline(removed[k]),
                  "Drawing", removed[k], "Removed",
                  LitSheetMissing \o set_to.name \o LitColon \o removed[k],
                  <<>>, <<>>, "High", "", 20, "sheet removed")]

\* SheetDelta with the two differences exchanged.
SheetDelta_Swapped(set_from, set_to, from_ids, to_ids) ==
    InventoryRows(set_from, set_to, SortedStrings(from_ids \ to_ids),
                  SortedStrings(to_ids \ from_ids))

SheetDelta(set_from, set_to, from_ids, to_ids) ==
    InventoryRows(set_from, set_to, SortedStrings(to_ids \ from_ids),
                  SortedStrings(from_ids \ to_ids))

inventory_changes(set_from, set_to) ==
    SheetDelta(set_from, set_to, SheetIds(set_from.pages), SheetIds(set_to.pages))

MaxSnippetDefault == 700

TableSampleRows == 30

\* int((config.get("diff") or {}).get("max_snippet_chars", 700))
MaxSnippet(cfg) ==
    CfgGet(CfgGet(cfg, "diff", EmptyMap), "max_snippet_chars", MaxSnippetDefault)

\* HasSectionWord for a text and its lower-cased form.
SectionWordIn(text, lower) ==
    \E i \in 1..Len(text) :
        /\ MatchAt(lower, i, LitSection)
        /\ i = 1 \/ ~IsWordChar(text[i - 1])
        /\ i + 7 > Len(text) \/ ~IsWordChar(text[i + 7])

\* re.search(r"\bSECTION\b", text, flags=re.IGNORECASE)
HasSectionWord(text) == SectionWordIn(text, Lower(text))

\* compare_sets, line 107
Reference(source) ==
    IF Truthy(source.sheet_id) THEN source.sheet_id
    ELSE BaseName(source.pdf_path) \o LitPageSep \o IntToStr(source.page_num + 1)

\* "\n"
NewLine == <<"\n">>

\* A ChangeRow whose flags and impact are still to be filled in.
Unscored(change_id, set_from, set_to, discipline, doc_type, reference, change_type, change_summary, before_snippet, after_snippet, confidence) ==
    ChangeRow(change_id, set_from.name, set_to.name, discipline, doc_type,
              reference, change_type, change_summary, before_snippet,
              after_snippet, confidence, "", 0, "")

\* ChangeRow(..., ";".join(flags), impact, rationale)
WithImpact(row, flags, impact) ==
    [row EXCEPT !.auto_flags = JoinNames(flags, ";"),
                !.impact_score = impact.score,
                !.impact_rationale = impact.rationale]

\* impact, rationale = compute_impact(change_type, flags, before, after,
\* table_delta) for the row's own type and snippets, as at lines 113, 118,
\* 127 and 136.
Scored(row, flags, table_delta) ==
    WithImpact(row, flags,
               compute_impact(row.change_type, flags, row.before_snippet,
                              row.after_snippet, table_delta))

\* compare_sets, lines 112-115
AddedNotesRow(cfg, set_from, set_to, match, reference, added, after) ==
    Scored(Unscored(short_hash(<<set_from.name, set_to.name, reference,
                                 LitNotesAdded, after>>),
                    set_from, set_to, match.from_page.discipline, "Drawing",
                    reference, "Added",
                    LitAddedNotes \o reference \o LitColon
                        \o IntToStr(Len(added)),
                    <<>>, after, match.confidence),
           apply_flags(cfg, after), FALSE)

\* compare_sets, lines 117-119
RemovedNotesRow(cfg, set_from, set_to, match, reference, removed, before) ==
    Scored(Unscored(short_hash(<<set_from.name, set_to.name, reference,
                                 LitNotesRemoved, before>>),
                    set_from, set_to, match.from_page.discipline, "Drawing",
                    reference, "Removed",
                    LitRemovedNotes \o reference \o LitColon
                        \o IntToStr(Len(removed)),
                    before, <<>>, match.confidence),
           <<>>, FALSE)

\* compare_sets, lines 111-119, for the lists diff_note_lists returned.
NoteRowsOf(cfg, set_from, set_to, match, reference, notes) ==
    (IF notes.added # <<>>
     THEN <<AddedNotesRow(cfg, set_from, set_to, match, reference, notes.added,
                          Prefix(Join(notes.added, NewLine), MaxSnippet(cfg)))>>
     ELSE <<>>)
    \o
    (IF notes.removed # <<>>
     THEN <<RemovedNotesRow(cfg, set_from, set_to, match, reference,
                            notes.removed,
                            Prefix(Join(notes.removed, NewLine),
                                   MaxSnippet(cfg)))>>
     ELSE <<>>)

\* compare_sets, lines 108-119: the note rows of one matched pair.
NoteRows(cfg, set_from, set_to, match, reference) ==
    NoteRowsOf(cfg, set_from, set_to, match, reference,
        diff_note_lists(
            split_note_bullets(match.from_page.text, NoteBulletMinLen),
            split_note_bullets(match.to_page.text, NoteBulletMinLen)))

\* "\n".join(table_signature(tables[0])[:30])[:max_snippet] if tables else ""
TableSample(tables, max_snippet) ==
    IF tables # <<>>
    THEN Prefix(Join(Prefix(table_signature(tables[1]), TableSampleRows),
                     NewLine), max_snippet)
    ELSE <<>>

\* compare_sets, lines 126-128
TableRow(cfg, set_from, set_to, match, reference, delta, before, after) ==
    Scored(Unscored(short_hash(<<set_from.name, set_to.name, reference,
                                 LitTables, IntToStr(delta.added),
                                 IntToStr(delta.removed)>>),
                    set_from, set_to, match.from_page.discipline, "Drawing",
                    reference, "Modified",
                    LitTableDelta \o reference \o LitPlus
                        \o IntToStr(delta.added) \o LitMinus
                        \o IntToStr(delta.removed),
                    before, after, match.confidence),
           apply_flags(cfg, before \o NewLine \o after), TRUE)

\* compare_sets, lines 123-128, for the counts diff_tables returned.
TableRowsOf(cfg, set_from, set_to, match, reference, delta) ==
    IF delta.added # 0 \/ delta.removed # 0
    THEN <<TableRow(cfg, set_from, set_to, match, reference, delta,
                    TableSample(match.from_page.tables, MaxSnippet(cfg)),
                    TableSample(match.to_page.tables, MaxSnippet(cfg)))>>
    ELSE <<>>

\* compare_sets, lines 122-128: the table row of one matched pair.
TableRows(cfg, set_from, set_to, match, reference) ==
    TableRowsOf(cfg, set_from, set_to, match, reference,
                diff_tables(match.from_page.tables, match.to_page.tables))

\* compare_sets, lines 134-137
SpecRow(cfg, set_from, set_to, sec, after) ==
    Scored(Unscored(short_hash(<<set_from.name, set_to.name, sec, LitSpecAdd>>),
                    set_from, set_to, "Specifications", "Spec", sec, "Added",
                    LitSpecAdded \o sec, <<>>, after, "High"),
           apply_flags(cfg, after), FALSE)

\* compare_sets, lines 133-137: for sec in sorted(set(dst_secs) - set(src_secs))
AddedSections(cfg, set_from, set_to, dst_secs, secs) ==
    [k \in 1..Len(secs) |->
        SpecRow(cfg, set_from, set_to, secs[k],
                Prefix(dst_secs[secs[k]], MaxSnippet(cfg)))]

SpecRowsOf(cfg, set_from, set_to, src_secs, dst_secs) ==
    AddedSections(cfg, set_from, set_to, dst_secs,
                  SortedStrings(DOMAIN dst_secs \ DOMAIN src_secs))

\* config.get("spec_section_patterns") or []
SpecPatterns(cfg) == CfgGet(cfg, "spec_section_patterns", <<>>)

\* compare_sets, lines 130-137: the spec rows of one matched pair.
SpecRows(cfg, set_from, set_to, match) ==
    IF HasSectionWord(match.from_page.text \o match.to_page.text)
    THEN SpecRowsOf(cfg, set_from, set_to,
             extract_spec_sections(match.from_page.text, SpecPatterns(cfg)),
             extract_spec_sections(match.to_page.text, SpecPatterns(cfg)))
    ELSE <<>>

\* compare_sets, lines 130-132: extract_spec_sections is called for a matched
\* pair with the word SECTION, and re.finditer (diff_specs.py, line 10) raises
\* re.error on a pattern that does not compile.
SpecRaises(cfg, match) ==
    /\ match.to_page # NoPage
    /\ HasSectionWord(match.from_page.text \o match.to_page.text)
    /\ \E k \in 1..Len(SpecPatterns(cfg)) : ~PatternCompiles(SpecPatterns(cfg)[k])

\* compare_sets, lines 108-137: the rows appended for one matched pair.
PairRows(cfg, set_from, set_to, match, reference) ==
    NoteRows(cfg, set_from, set_to, match, reference)
    \o TableRows(cfg, set_from, set_to, match, reference)
    \o SpecRows(cfg, set_from, set_to, match)

\* compare_sets, lines 102-137: one iteration of the loop over matches.
MatchRows(cfg, set_from, set_to, match) ==
    IF match.to_page = NoPage THEN <<>>
    ELSE PairRows(cfg, set_from, set_to, match, Reference(match.from_page))

\* Dedupe that keeps the first row of every identifier.
Dedupe_KeepFirst(produced) ==
    SelectSeq([k \in 1..Len(produced) |->
                  IF \A j \in 1..(k - 1) :
                         produced[j].change_id # produced[k].change_id
                  THEN produced[k] ELSE <<>>],
              LAMBDA r : r # <<>>)

\* compare_sets, lines 139-140: {row.change_id: row for row in rows} keeps
\* every key at its first position with its last row.
Dedupe(produced) ==
    LET first == SelectSeq([k \in 1..Len(produced) |-> k], LAMBDA k :
                     \A j \in 1..(k - 1) : produced[j].change_id # produced[k].change_id)
        last(id) == CHOOSE k \in 1..Len(produced) :
                        /\ produced[k].change_id = id
                        /\ \A j \in (k + 1)..Len(produced) : produced[j].change_id # id
    IN  [n \in 1..Len(first) |-> produced[last(produced[first[n]].change_id)]]

(***************************************************************************)
(* The whole calls of match.py and cli.py                                  *)
(***************************************************************************)

\* match_pages(from_set, to_set, weights), lines 89-114: the results list.
PagesMatched(from_pages, to_pages, index, weights) ==
    [i \in 1..Len(from_pages) |->
        MatchOne(from_pages[i], to_pages, index, weights)]

match_pages(from_set, to_set, weights) ==
    PagesMatched(from_set.pages, to_set.pages, BuildBySheet(to_set.pages),
                 weights)

RECURSIVE RowsOfMatches(_, _, _, _)
\* compare_sets, lines 102-137: rows after the loop over the matches ms.
RowsOfMatches(cfg, set_from, set_to, ms) ==
    IF ms = <<>> THEN <<>>
    ELSE MatchRows(cfg, set_from, set_to, ms[1])
         \o RowsOfMatches(cfg, set_from, set_to, Tail(ms))

\* compare_sets(config, set_from, set_to, matches), lines 96-140
compare_sets(cfg, set_from, set_to, ms) ==
    Bind(RowsOfMatches(cfg, set_from, set_to, ms),
         LAMBDA produced : Dedupe(produced))

(***************************************************************************)
(* ai.py                                                                   *)
(***************************************************************************)

\* 'AI'
LitAI ==
    <<"A","I">>

\* 'AI detected potential scope change.'
LitAiSummary ==
    <<"A","I"," ","d","e","t","e","c","t","e","d"," ","p","o","t","e","n",
      "t","i","a","l"," ","s","c","o","p","e"," ","c","h","a","n","g","e",
      ".">>

\* 'AI review'
LitAiReview ==
    <<"A","I"," ","r","e","v","i","e","w">>

\* 'None'
LitNone ==
    <<"N","o","n","e">>

\* 'True'
LitTrue ==
    <<"T","r","u","e">>

\* 'False'
LitFalse ==
    <<"F","a","l","s","e">>

\* '4.5'
LitFloat ==
    <<"4",".","5">>

\* before[:700], after[:700]
AiSnippetChars == 700

\* The values json.loads returns, tagged with their Python type.  A dict
\* holds the three keys a finding is read for; JAbsent marks a missing key.
JAbsent == [type |-> "absent"]

JNull == [type |-> "NoneType"]

JInt(n) == [type |-> "int", int |-> n]

JBool(b) == [type |-> "bool", bool |-> b]

JFloat == [type |-> "float"]

JStr(s) == [type |-> "str", str |-> s]

JList(items) == [type |-> "list", list |-> items]

JFinding(summary, rationale, significance) ==
    [type |-> "dict", summary |-> summary, rationale |-> rationale,
     significance_1to5 |-> significance]

\* A dict whose only key of interest is "findings" (JAbsent when missing).
JData(findings) == [type |-> "dict", findings |-> findings]

\* _short_hash(*parts) of ai.py: as short_hash of cli.py, the identifier is
\* identified with the text that is hashed.
_short_hash(parts) == Join(parts, LitBar)

\* str(n) for an int
SignedToStr(n) == IF n < 0 THEN <<"-">> \o IntToStr(0 - n) ELSE IntToStr(n)

\* str(finding.get(key, "")) for the value v found under the key
StrOf(v) ==
    CASE v.type = "absent" -> <<>>
      [] v.type = "str" -> v.str
      [] v.type = "NoneType" -> LitNone
      [] v.type = "int" -> SignedToStr(v.int)
      [] v.type = "bool" -> IF v.bool THEN LitTrue ELSE LitFalse
      [] v.type = "float" -> LitFloat

\* int(score) if isinstance(score, int) else 0; a bool is an int in Python.
ImpactOfScore(v) ==
    CASE v.type = "int" -> v.int
      [] v.type = "bool" -> IF v.bool THEN 1 ELSE 0
      [] OTHER -> 0

\* bool(x) for a value json.loads returned
JTruthy(v) ==
    CASE v.type = "NoneType" -> FALSE
      [] v.type = "absent" -> FALSE
      [] v.type = "int" -> v.int # 0
      [] v.type = "bool" -> v.bool
      [] v.type = "float" -> TRUE
      [] v.type = "str" -> v.str # <<>>
      [] v.type = "list" -> v.list # <<>>
      [] v.type = "dict" -> TRUE

\* ai_scan_matches, line 59
AiReference(page) ==
    IF Truthy(page.sheet_id) THEN page.sheet_id
    ELSE <<"p">> \o IntToStr(page.page_num + 1)

\* ai_scan_matches, lines 80-97, for the stripped summary and rationale.
AiRow(match, reference, before, after, summary, rationale, score, idx) ==
    ChangeRow(_short_hash(<<reference, summary, rationale, IntToStr(idx)>>),
              LitAI, LitAI, match.from_page.discipline, "AI", reference,
              "AI_Finding",
              IF summary # <<>> THEN summary ELSE LitAiSummary,
              Prefix(before, AiSnippetChars), Prefix(after, AiSnippetChars),
              "AI", "", ImpactOfScore(score),
              IF rationale # <<>> THEN rationale ELSE LitAiReview)

\* ai_scan_matches, lines 76-97: the row of the idx-th finding (from 0).
FindingRow(match, reference, before, after, finding, idx) ==
    AiRow(match, reference, before, after, Strip(StrOf(finding.summary)),
          Strip(StrOf(finding.rationale)), finding.significance_1to5, idx)

\* What the statements of one loop iteration leave behind: the rows that
\* were appended, and whether an exception left the function.
Outcome(appended, raised) == [rows |-> appended, raised |-> raised]

RECURSIVE FindingRows(_, _, _, _, _, _)
\* ai_scan_matches, lines 75-97: for idx, finding in enumerate(items); a
\* finding that is no dict has no get(): AttributeError leaves the loop.
FindingRows(match, reference, before, after, items, idx) ==
    IF idx >= Len(items) THEN Outcome(<<>>, FALSE)
    ELSE IF items[idx + 1].type # "dict" THEN Outcome(<<>>, TRUE)
    ELSE Bind(FindingRows(match, reference, before, after, items, idx + 1),
              LAMBDA rest :
                  Outcome(<<FindingRow(match, reference, before, after,
                                       items[idx + 1], idx)>> \o rest.rows,
                          rest.raised))

\* What iterating a str gives: its characters, each a str.
CharsOf(s) == [k \in 1..Len(s) |-> JStr(<<s[k]>>)]

\* ai_scan_matches, line 75: enumerate(findings or []).  A list gives its
\* items, a str its characters, a dict its keys; a number is not iterable
\* (TypeError).
Iterated(findings) ==
    IF ~JTruthy(findings) THEN [items |-> <<>>, raised |-> FALSE]
    ELSE CASE findings.type = "list" ->
                  [items |-> findings.list, raised |-> FALSE]
           [] findings.type = "str" ->
                  [items |-> CharsOf(findings.str), raised |-> FALSE]
           [] findings.type = "dict" ->
                  [items |-> <<JStr(<<"f">>)>>, raised |-> FALSE]
           [] OTHER -> [items |-> <<>>, raised |-> TRUE]

\* ai_scan_matches, line 70:
\* data.get("findings", []) if isinstance(data, dict) else data
FindingsIn(data) ==
    IF data.type = "dict"
    THEN (IF data.findings.type = "absent" THEN JList(<<>>)
          ELSE data.findings)
    ELSE data

\* ai_scan_matches, lines 62-73: the findings for what the service did.  An
\* exception of create(), a content that is no JSON: findings = []; no
\* content at all: "{}".
FindingsOf(response) ==
    CASE response.kind = "error" -> JList(<<>>)
      [] response.kind = "unparsable" -> JList(<<>>)
      [] response.kind = "no_content" -> FindingsIn(JData(JAbsent))
      [] response.kind = "json" -> FindingsIn(response.data)

ScanFindings(match, reference, before, after, iter) ==
    IF iter.raised THEN Outcome(<<>>, TRUE)
    ELSE FindingRows(match, reference, before, after, iter.items, 0)

\* ai_scan_matches, lines 57-97: one matched page, for the response of the
\* service to its prompt.
ScanPage(match, max_chars, response) ==
    ScanFindings(match, AiReference(match.from_page),
                 Prefix(match.from_page.text, max_chars),
                 Prefix(match.to_page.text, max_chars),
                 Iterated(FindingsOf(response)))

(***************************************************************************)
(* Inputs                                                                  *)
(***************************************************************************)

\* 'A-101'
SheetA101 ==
    <<"A","-","1","0","1">>

\* 'X-900'
SheetX900 ==
    <<"X","-","9","0","0">>

\* 'Roof Plan'
TitleRoofPlan ==
    <<"R","o","o","f"," ","P","l","a","n">>

\* 'ROOF PLAN'
TitleRoofPlanUpper ==
    <<"R","O","O","F"," ","P","L","A","N">>

\* 'Site Plan'
TitleSitePlan ==
    <<"S","i","t","e"," ","P","l","a","n">>

\* 'in/a.pdf'
PdfPath ==
    <<"i","n","/","a",".","p","d","f">>

\* 'Conduit'
TermConduit ==
    <<"C","o","n","d","u","i","t">>

\* 'by others'
TermByOthers ==
    <<"b","y"," ","o","t","h","e","r","s">>

\* 'insulation'
TermInsulation ==
    <<"i","n","s","u","l","a","t","i","o","n">>


\* 'Mark'
CellMark ==
    <<"M","a","r","k">>

\* 'Qty'
CellQty ==
    <<"Q","t","y">>

\* 'P1'
CellP1 ==
    <<"P","1">>

\* 'P2'
CellP2 ==
    <<"P","2">>

\* '1'
CellOne ==
    <<"1">>

\* Page contents: everything of a PageExtract but its place in the PDF.
Content(sheet_id, hint, discipline, text, tables, fp) ==
    [sheet_id |-> sheet_id, hint |-> hint, discipline |-> discipline,
     text |-> text, tables |-> tables, fp |-> fp]

\* ingest_set for one PDF file: its pages in page order.
IngestPages(contents) ==
    [k \in 1..Len(contents) |->
        PageExtract(PdfPath, k - 1, contents[k].text, contents[k].sheet_id,
                    contents[k].hint, contents[k].discipline,
                    contents[k].tables, contents[k].fp)]

SeqsUpTo(S, n) == UNION {[1..k -> S] : k \in 0..n}

NoSet == [absent |-> TRUE]

\* A fingerprint stored on a page by a caller (bits 0 and 5 set).
StoredFingerprint == {0, 5}

\* Pages for the matching engine: identifiers, titles, disciplines, texts
\* and stored fingerprints in the combinations the scorer distinguishes.
MatchCatalogue ==
    {Content(SheetA101, TitleRoofPlan, "Architectural", TextNoteA, <<>>, {}),
     Content(SheetA101, TitleRoofPlanUpper, "Architectural", TextNoteAB, <<>>, {}),
     Content(SheetA101, None, "Architectural", TextNoteA, <<>>, StoredFingerprint),
     Content(SheetA101, None, "Architectural", TextNoteA, <<>>, {}),
     Content(SheetX900, None, "Unknown", TextPlain, <<>>, {}),
     Content(None, TitleSitePlan, "Architectural", TextEmpty, <<>>, {})}

\* matching.weights of the configuration: absent, retuned, and negative.
WeightChoices ==
    {EmptyMap,
     [sheet_id_exact |-> 35, title_similarity |-> 30],
     [title_similarity |-> -20, discipline_similarity |-> -10,
      fingerprint_similarity |-> -60]}

\* Answers of WRatio for two different non-empty titles.
RatioSamples == {45, 90}

MaxFrom == 2

MaxTo == 2

\* A schedule as pdfplumber returns it: rows of cells.
TableA ==
    << <<CellMark, CellQty>>, <<CellP1, CellOne>> >>

TableAB ==
    << <<CellMark, CellQty>>, <<CellP1, CellOne>>, <<CellP2, CellOne>> >>

\* Pages for a whole run: drawing sheets with notes and schedules, and
\* specification pages, as ingest_set produces them (the discipline is
\* guess_discipline(sheet_id), no fingerprint is stored).
RunCatalogue ==
    {Content(SheetA101, TitleRoofPlan, guess_discipline(SheetA101),
             TextNoteA, <<TableA>>, {}),
     Content(SheetA101, None, guess_discipline(SheetA101), TextNoteA, <<>>, {}),
     Content(SheetA101, TitleRoofPlanUpper, guess_discipline(SheetA101),
             TextNoteAB, <<TableAB>>, {}),
     Content(None, None, guess_discipline(None), TextSpec1, <<>>, {}),
     Content(None, None, guess_discipline(None), TextSpec12, <<>>, {}),
     Content(None, None, guess_discipline(None), TextSpec1m, <<>>, {})}

\* config["flags"]: flag groups with their terms.
ConfigFlags ==
    <<[group |-> "electrical", terms |-> <<TermConduit>>],
      [group |-> "scope", terms |-> <<TermByOthers, TermInsulation>>]>>

\* Configurations load_config can return: with heading patterns and flags,
\* with a tight snippet limit, and empty.
RunConfigs ==
    {[spec_section_patterns |-> <<PatSectionNumber>>, flags |-> ConfigFlags],
     [spec_section_patterns |-> <<PatSectionNumber>>,
      diff |-> [max_snippet_chars |-> 20]],
     EmptyMap}

MaxGmp == 2

MaxBid == 1

MaxAddenda == 1

\* (config.get("matching") or {}).get("weights") or {}
WeightCfg == CfgGet(CfgGet(config, "matching", EmptyMap), "weights", EmptyMap)

ToSet == IF to_name = "BID" THEN bid ELSE addenda

(***************************************************************************)
(* cli.run, match_pages and compare_sets as a state machine                *)
(***************************************************************************)

\* run, lines 158-164: the sets are ingested and the configuration loaded.
Init ==
    /\ \E c \in SeqsUpTo(RunCatalogue, MaxGmp) :
           gmp = DocSet(GMP, IngestPages(c))
    /\ \E c \in SeqsUpTo(RunCatalogue, MaxBid) :
           bid = DocSet(BID, IngestPages(c))
    /\ \/ addenda = NoSet
       \/ \E c \in SeqsUpTo(RunCatalogue, MaxAddenda) \ {<<>>} :
              addenda = DocSet(ADDENDA, IngestPages(c))
    /\ config \in RunConfigs
    /\ fuzz = 90
    /\ pc = "match"
    /\ to_name = "BID"
    /\ by_sheet = EmptyMap
    /\ results = <<>>
    /\ todo = <<>>
    /\ rows = <<>>
    /\ matches = <<>>
    /\ changes = <<>>
    /\ inventory = <<>>
    /\ call_args = <<>>
    /\ call_result = <<>>
    /\ ai_config = NoAiConfig
    /\ reviewed = 0
    /\ ai_findings = <<>>

InitMatch ==
    /\ \E c \in SeqsUpTo(MatchCatalogue, MaxFrom) :
           gmp = DocSet(GMP, IngestPages(c))
    /\ \E c \in SeqsUpTo(MatchCatalogue, MaxTo) :
           bid = DocSet(BID, IngestPages(c))
    /\ addenda = NoSet
    /\ \E w \in WeightChoices : config = [matching |-> [weights |-> w]]
    /\ fuzz \in RatioSamples
    /\ pc = "match"
    /\ to_name = "BID"
    /\ by_sheet = EmptyMap
    /\ results = <<>>
    /\ todo = <<>>
    /\ rows = <<>>
    /\ matches = <<>>
    /\ changes = <<>>
    /\ inventory = <<>>
    /\ call_args = <<>>
    /\ call_result = <<>>
    /\ ai_config = NoAiConfig
    /\ reviewed = 0
    /\ ai_findings = <<>>

\* run, line 165: match_pages(gmp, bid, weight_cfg) is entered.
MatchBid ==
    /\ pc = "match"
    /\ to_name' = "BID"
    /\ by_sheet' = BuildBySheet(bid.pages)
    /\ results' = <<>>
    /\ pc' = "match_loop"
    /\ UNCHANGED <<gmp, bid, addenda, config, fuzz, todo, rows, matches,
                   changes, inventory, call_args, call_result,
                   ai_vars>>

\* The pages of a list that no result so far has as its target.
Unassigned(pages, sofar) ==
    SelectSeq(pages, LAMBDA p : \A k \in 1..Len(sofar) : sofar[k].to_page # p)

\* MatchPage that offers a source page only the target pages that no earlier
\* source page has received.
MatchPage_Exclusive ==
    /\ pc = "match_loop"
    /\ Len(results) < Len(gmp.pages)
    /\ results' = Append(results,
                         MatchOne(gmp.pages[Len(results) + 1],
                                  Unassigned(ToSet.pages, results),
                                  BuildBySheet(Unassigned(ToSet.pages, results)),
                                  WeightCfg))
    /\ UNCHANGED <<gmp, bid, addenda, config, fuzz, pc, to_name, by_sheet,
                   todo, rows, matches, changes, inventory, call_args,
                   call_result,
                   ai_vars>>

\* MatchPage that walks from_set.pages from its end.
MatchPage_Reversed ==
    /\ pc = "match_loop"
    /\ Len(results) < Len(gmp.pages)
    /\ results' = Append(results,
                         MatchOne(gmp.pages[Len(gmp.pages) - Len(results)],
                                  ToSet.pages, by_sheet, WeightCfg))
    /\ UNCHANGED <<gmp, bid, addenda, config, fuzz, pc, to_name, by_sheet,
                   todo, rows, matches, changes, inventory, call_args,
                   call_result,
                   ai_vars>>

\* match_pages, lines 97-111: one iteration of the loop over from_set.pages.
MatchPage ==
    /\ pc = "match_loop"
    /\ Len(results) < Len(gmp.pages)
    /\ results' = Append(results,
                         MatchOne(gmp.pages[Len(results) + 1], ToSet.pages,
                                  by_sheet, WeightCfg))
    /\ UNCHANGED <<gmp, bid, addenda, config, fuzz, pc, to_name, by_sheet,
                   todo, rows, matches, changes, inventory, call_args,
                   call_result,
                   ai_vars>>

\* match_pages returns results: run keeps them as matches (line 165) or as
\* add_matches (line 171) and enters compare_sets with them (lines 97-99).
MatchReturn ==
    /\ pc = "match_loop"
    /\ Len(results) = Len(gmp.pages)
    /\ matches' = IF to_name = "BID" THEN results ELSE matches
    /\ todo' = results
    /\ rows' = <<>>
    /\ pc' = "compare"
    /\ UNCHANGED <<gmp, bid, addenda, config, fuzz, to_name, by_sheet,
                   results, changes, inventory, call_args, call_result,
                   ai_vars>>

\* compare_sets, lines 102-137: one iteration of the loop over matches.
ComparePair ==
    /\ pc = "compare"
    /\ todo # <<>>
    /\ ~SpecRaises(config, Head(todo))
    /\ rows' = rows \o MatchRows(config, gmp, ToSet, Head(todo))
    /\ todo' = Tail(todo)
    /\ UNCHANGED <<gmp, bid, addenda, config, fuzz, pc, to_name, by_sheet,
                   results, matches, changes, inventory, call_args,
                   call_result,
                   ai_vars>>

\* compare_sets returns list(dedupe.values()): run keeps it as changes
\* (line 166), or extends changes and matches with it (lines 172-173).
CompareReturn ==
    /\ pc = "compare"
    /\ todo = <<>>
    /\ changes' = IF to_name = "BID" THEN Dedupe(rows)
                  ELSE changes \o Dedupe(rows)
    /\ matches' = IF to_name = "BID" THEN matches ELSE matches \o results
    /\ pc' = IF to_name = "BID" THEN "inventory" ELSE "write"
    /\ UNCHANGED <<gmp, bid, addenda, config, fuzz, to_name, by_sheet,
                   results, todo, rows, inventory, call_args, call_result,
                   ai_vars>>

\* run, line 167
Inventory ==
    /\ pc = "inventory"
    /\ inventory' = inventory_changes(gmp, bid)
    /\ pc' = "addenda"
    /\ UNCHANGED <<gmp, bid, addenda, config, fuzz, to_name, by_sheet,
                   results, todo, rows, matches, changes, call_args,
                   call_result,
                   ai_vars>>

\* run, line 169: there is no ADDENDA set, or it holds no PDF.
AddendaSkip ==
    /\ pc = "addenda"
    /\ addenda = NoSet
    /\ pc' = "write"
    /\ UNCHANGED <<gmp, bid, addenda, config, fuzz, to_name, by_sheet,
                   results, todo, rows, matches, changes, inventory,
                   call_args, call_result,
                   ai_vars>>

\* run, lines 169-171: match_pages(gmp, addenda, weight_cfg) is entered.
MatchAddenda ==
    /\ pc = "addenda"
    /\ addenda # NoSet
    /\ to_name' = "ADDENDA"
    /\ by_sheet' = BuildBySheet(addenda.pages)
    /\ results' = <<>>
    /\ pc' = "match_loop"
    /\ UNCHANGED <<gmp, bid, addenda, config, fuzz, todo, rows, matches,
                   changes, inventory, call_args, call_result,
                   ai_vars>>

\* run, lines 175-178: the workbook is written and run returns 0.
Write ==
    /\ pc = "write"
    /\ pc' = "done"
    /\ UNCHANGED <<gmp, bid, addenda, config, fuzz, to_name, by_sheet,
                   results, todo, rows, matches, changes, inventory,
                   call_args, call_result,
                   ai_vars>>

Next ==
    \/ MatchBid
    \/ MatchPage
    \/ MatchReturn
    \/ ComparePair
    \/ CompareReturn
    \/ Inventory
    \/ AddendaSkip
    \/ MatchAddenda
    \/ Write

Spec == Init /\ [][Next]_vars

NextMatch == MatchBid \/ MatchPage \/ MatchReturn

SpecMatch == InitMatch /\ [][NextMatch]_vars

(***************************************************************************)
(* Direct calls of _composite_score                                        *)
(***************************************************************************)

CataloguePages == {IngestPages(<<c>>)[1] : c \in MatchCatalogue}

InitScore ==
    /\ gmp = DocSet(GMP, <<>>)
    /\ bid = DocSet(BID, <<>>)
    /\ addenda = NoSet
    /\ \E w \in WeightChoices : config = [matching |-> [weights |-> w]]
    /\ fuzz \in RatioSamples
    /\ pc = "call"
    /\ to_name = "BID"
    /\ by_sheet = EmptyMap
    /\ results = <<>>
    /\ todo = <<>>
    /\ rows = <<>>
    /\ matches = <<>>
    /\ changes = <<>>
    /\ inventory = <<>>
    /\ \E s \in CataloguePages, d \in CataloguePages :
           call_args = [src |-> s, dst |-> d]
    /\ call_result = <<>>
    /\ ai_config = NoAiConfig
    /\ reviewed = 0
    /\ ai_findings = <<>>

\* _composite_score(src, dst, weights) is called and returns.
CallCompositeScore ==
    /\ pc = "call"
    /\ call_result' = _composite_score(call_args.src, call_args.dst, WeightCfg)
    /\ pc' = "returned"
    /\ UNCHANGED <<gmp, bid, addenda, config, fuzz, to_name, by_sheet, results,
                   todo, rows, matches, changes, inventory, call_args,
                   ai_vars>>

NextScore == CallCompositeScore

SpecScore == InitScore /\ [][NextScore]_vars

(***************************************************************************)
(* Direct calls of compute_impact                                          *)
(***************************************************************************)

ImpactTypes == {"Added", "Removed", "Modified", "AI_Finding"}

ImpactFlags == {<<>>, <<"electrical">>, <<"electrical", "scope">>}

ImpactTexts == {TextEmpty, TextPlain, TextNoteA, TextNoteC}

InitImpact ==
    /\ gmp = DocSet(GMP, <<>>)
    /\ bid = DocSet(BID, <<>>)
    /\ addenda = NoSet
    /\ config = EmptyMap
    /\ fuzz = 90
    /\ pc = "call"
    /\ to_name = "BID"
    /\ by_sheet = EmptyMap
    /\ results = <<>>
    /\ todo = <<>>
    /\ rows = <<>>
    /\ matches = <<>>
    /\ changes = <<>>
    /\ inventory = <<>>
    /\ \E t \in ImpactTypes, f \in ImpactFlags, a \in ImpactTexts,
          d \in BOOLEAN :
           call_args = [change_type |-> t, flags |-> f, before |-> <<>>,
                        after |-> a, table_delta |-> d]
    /\ call_result = <<>>
    /\ ai_config = NoAiConfig
    /\ reviewed = 0
    /\ ai_findings = <<>>

\* compute_impact(change_type, flags, before, after, table_delta) is called
\* and returns.
CallComputeImpact ==
    /\ pc = "call"
    /\ call_result' = compute_impact(call_args.change_type, call_args.flags,
                                     call_args.before, call_args.after,
                                     call_args.table_delta)
    /\ pc' = "returned"
    /\ UNCHANGED <<gmp, bid, addenda, config, fuzz, to_name, by_sheet, results,
                   todo, rows, matches, changes, inventory, call_args,
                   ai_vars>>

NextImpact == CallComputeImpact

SpecImpact == InitImpact /\ [][NextImpact]_vars

(***************************************************************************)
(* ui_app: the AI scan over the matches of a finished run                  *)
(***************************************************************************)

\* ' Added panel '
TextFindingSummary ==
    <<" ","A","d","d","e","d"," ","p","a","n","e","l"," ">>

\* 'scope'
TextFindingRationale ==
    <<"s","c","o","p","e">>

FindingFull == JFinding(JStr(TextFindingSummary), JStr(TextFindingRationale), JInt(4))

FindingBare == JFinding(JAbsent, JAbsent, JAbsent)

\* What the external service may do with one prompt: fail, answer nothing,
\* answer text that is no JSON, or answer JSON of any shape.
ServiceResponses ==
    <<[kind |-> "error"],
      [kind |-> "unparsable"],
      [kind |-> "no_content"],
      [kind |-> "json", data |-> JData(JAbsent)],
      [kind |-> "json", data |-> JData(JList(<<FindingFull>>))],
      [kind |-> "json", data |-> JData(JList(<<FindingBare, FindingFull>>))],
      [kind |-> "json", data |-> JData(JList(<<JFinding(JNull, JAbsent, JInt(500))>>))],
      [kind |-> "json", data |-> JData(JList(<<JFinding(JAbsent, JAbsent, JInt(0 - 3))>>))],
      [kind |-> "json", data |-> JData(JList(<<JFinding(JAbsent, JAbsent, JStr(<<"5">>)),
                                               JFinding(JAbsent, JAbsent, JBool(TRUE)),
                                               JFinding(JAbsent, JAbsent, JFloat)>>))],
      [kind |-> "json", data |-> JData(JList(<<FindingFull, JStr(TextFindingRationale)>>))],
      [kind |-> "json", data |-> JData(JList(<<JNull>>))],
      [kind |-> "json", data |-> JData(JInt(5))],
      [kind |-> "json", data |-> JData(JNull)],
      [kind |-> "json", data |-> JData(JStr(TextFindingRationale))],
      [kind |-> "json", data |-> JList(<<FindingFull>>)],
      [kind |-> "json", data |-> JInt(3)],
      [kind |-> "json", data |-> JNull]>>

\* AiConfig(model, max_items, max_chars); the model name plays no part.
AiConfigs == {[max_items |-> n, max_chars |-> c] : n \in {1, 2}, c \in {10, 2000}}

AiCatalogue ==
    {Content(SheetA101, None, "Architectural", TextNoteA, <<>>, {}),
     Content(None, None, "Unknown", TextSpec1, <<>>, {})}

AiTarget == <<Content(SheetA101, None, "Architectural", TextNoteAB, <<>>, {})>>

MaxAiGmp == 2

\* run, lines 166-167 and 172-173: changes, inventory and matches for the
\* matches of the two comparisons (add_matches is <<>> without ADDENDA).
ResultsOf(cfg, g, b, a, bid_matches, add_matches) ==
    [changes |-> compare_sets(cfg, g, b, bid_matches)
                 \o (IF a = NoSet THEN <<>>
                     ELSE compare_sets(cfg, g, a, add_matches)),
     inventory |-> inventory_changes(g, b),
     matches |-> bid_matches \o add_matches]

\* build_results(config, sets) as run computes the three lists, cli.py
\* lines 164-173.
build_results(cfg, g, b, a) ==
    Bind(CfgGet(CfgGet(cfg, "matching", EmptyMap), "weights", EmptyMap),
         LAMBDA weights :
             Bind(match_pages(g, b, weights), LAMBDA bid_matches :
                 Bind(IF a = NoSet THEN <<>> ELSE match_pages(g, a, weights),
                      LAMBDA add_matches :
                          ResultsOf(cfg, g, b, a, bid_matches, add_matches))))

\* ui_app, lines 152-165: the session after "Run Diff".
InitAi ==
    /\ \E c \in SeqsUpTo(AiCatalogue, MaxAiGmp) :
           gmp = DocSet(GMP, IngestPages(c))
    /\ \E c \in {<<>>, AiTarget} : bid = DocSet(BID, IngestPages(c))
    /\ \/ addenda = NoSet
       \/ addenda = DocSet(ADDENDA, IngestPages(AiTarget))
    /\ config = EmptyMap
    /\ fuzz = 90
    /\ pc = "ready"
    /\ to_name = "BID"
    /\ by_sheet = EmptyMap
    /\ results = <<>>
    /\ todo = <<>>
    /\ rows = <<>>
    /\ \E built \in {build_results(config, gmp, bid, addenda)} :
           /\ changes = built.changes
           /\ inventory = built.inventory
           /\ matches = built.matches
    /\ call_args = <<>>
    /\ call_result = <<>>
    /\ ai_config = NoAiConfig
    /\ reviewed = 0
    /\ ai_findings = <<>>

\* ui_app, lines 264-277: "Run AI Scan" with the scan enabled and a key;
\* ai_scan_matches is entered (ai.py, lines 48-49).
AiScanStart ==
    /\ pc = "ready"
    /\ ai_config' \in AiConfigs
    /\ results' = <<>>
    /\ reviewed' = 0
    /\ todo' = matches
    /\ pc' = "ai_loop"
    /\ UNCHANGED <<gmp, bid, addenda, config, fuzz, to_name, by_sheet, rows,
                   matches, changes, inventory, call_args, call_result,
                   ai_findings>>

\* ai_scan_matches, lines 52-53: a match without target page is passed over.
AiSkip ==
    /\ pc = "ai_loop"
    /\ todo # <<>>
    /\ Head(todo).to_page = NoPage
    /\ todo' = Tail(todo)
    /\ UNCHANGED <<gmp, bid, addenda, config, fuzz, pc, to_name, by_sheet,
                   results, rows, matches, changes, inventory, call_args,
                   call_result, ai_vars>>

\* The rows of one page are appended; an exception that nothing catches
\* leaves ai_scan_matches and the handler of the button (ui_app, line 277).
AiPageEnds(out) ==
    /\ results' = results \o out.rows
    /\ reviewed' = IF out.raised THEN reviewed ELSE reviewed + 1
    /\ todo' = IF out.raised THEN todo ELSE Tail(todo)
    /\ pc' = IF out.raised THEN "ai_raised" ELSE "ai_loop"

\* ai_scan_matches, lines 54-99: one matched page is sent to the service.
AiPage ==
    /\ pc = "ai_loop"
    /\ todo # <<>>
    /\ Head(todo).to_page # NoPage
    /\ reviewed < ai_config.max_items
    /\ \E k \in 1..Len(ServiceResponses) :
           AiPageEnds(ScanPage(Head(todo), ai_config.max_chars,
                               ServiceResponses[k]))
    /\ UNCHANGED <<gmp, bid, addenda, config, fuzz, to_name, by_sheet, rows,
                   matches, changes, inventory, call_args, call_result,
                   ai_config, ai_findings>>

\* ai_scan_matches, lines 51-55: the loop is over, or max_items is reached.
ScanEnded ==
    IF todo = <<>> THEN TRUE
    ELSE Head(todo).to_page # NoPage /\ reviewed >= ai_config.max_items

\* ai_scan_matches returns results (line 101); ui_app, lines 277-280, keeps
\* them as ai_findings and appends them to the changes of the session.
AiReturn ==
    /\ pc = "ai_loop"
    /\ ScanEnded
    /\ ai_findings' = results
    /\ changes' = changes \o results
    /\ pc' = "ai_done"
    /\ UNCHANGED <<gmp, bid, addenda, config, fuzz, to_name, by_sheet,
                   results, todo, rows, matches, inventory, call_args,
                   call_result, ai_config, reviewed>>

NextAi == AiScanStart \/ AiSkip \/ AiPage \/ AiReturn

SpecAi == InitAi /\ [][NextAi]_vars

(***************************************************************************)
(* The session of ui_app: Run Diff, Run AI Scan and Export in any order    *)
(***************************************************************************)

\* The positions at which the page waits for a button: after Run Diff,
\* after an AI scan that returned or raised, after an export.
SessionWaits == {"ready", "ai_done", "ai_raised", "exported"}

MaxSessionChanges == 4

MaxUiGmp == 1

\* ui_app, lines 135-165: the session after the first "Run Diff" on a GMP
\* folder of up to MaxUiGmp pages and a BID folder.
InitUi ==
    /\ \E c \in SeqsUpTo(AiCatalogue, MaxUiGmp) :
           gmp = DocSet(GMP, IngestPages(c))
    /\ \E c \in {<<>>, AiTarget} : bid = DocSet(BID, IngestPages(c))
    /\ addenda = NoSet
    /\ config = EmptyMap
    /\ fuzz = 90
    /\ pc = "ready"
    /\ to_name = "BID"
    /\ by_sheet = EmptyMap
    /\ results = <<>>
    /\ todo = <<>>
    /\ rows = <<>>
    /\ \E built \in {build_results(config, gmp, bid, addenda)} :
           /\ changes = built.changes
           /\ inventory = built.inventory
           /\ matches = built.matches
    /\ call_args = <<>>
    /\ call_result = <<>>
    /\ ai_config = NoAiConfig
    /\ reviewed = 0
    /\ ai_findings = <<>>

\* ui_app, lines 135-165: "Run Diff" is pressed again for the same folders
\* and configuration; the three lists are replaced and the AI results of
\* the session are emptied; nothing is left of the locals of an earlier
\* scan.
RunDiffAgain ==
    /\ pc \in SessionWaits \ {"ready"}
    /\ \E built \in {build_results(config, gmp, bid, addenda)} :
           /\ changes' = built.changes
           /\ inventory' = built.inventory
           /\ matches' = built.matches
    /\ ai_findings' = <<>>
    /\ pc' = "ready"
    /\ results' = <<>>
    /\ todo' = <<>>
    /\ reviewed' = 0
    /\ ai_config' = NoAiConfig
    /\ UNCHANGED <<gmp, bid, addenda, config, fuzz, to_name, by_sheet, rows,
                   call_args, call_result>>

\* ui_app, lines 264-277: "Run AI Scan" is pressed once more, the scan
\* being enabled and a key present; ai_scan_matches is entered with the
\* matches of the session.
RunAiScanAgain ==
    /\ pc \in SessionWaits \ {"ready"}
    /\ Len(changes) <= MaxSessionChanges
    /\ ai_config' \in AiConfigs
    /\ results' = <<>>
    /\ reviewed' = 0
    /\ todo' = matches
    /\ pc' = "ai_loop"
    /\ UNCHANGED <<gmp, bid, addenda, config, fuzz, to_name, by_sheet, rows,
                   matches, changes, inventory, call_args, call_result,
                   ai_findings>>

\* ui_app, lines 282-291: "Export to Excel" writes the workbook from the
\* changes, inventory and matches of the session, which stay as they are.
ExportToExcel ==
    /\ pc \in SessionWaits \ {"exported"}
    /\ pc' = "exported"
    /\ UNCHANGED <<gmp, bid, addenda, config, fuzz, to_name, by_sheet, results,
                   todo, rows, matches, changes, inventory, call_args,
                   call_result, ai_vars>>

NextUi ==
    \/ AiScanStart
    \/ AiSkip
    \/ AiPage
    \/ AiReturn
    \/ RunDiffAgain
    \/ RunAiScanAgain
    \/ ExportToExcel

SpecUi == InitUi /\ [][NextUi]_vars

(***************************************************************************)
(* Direct calls of diff_note_lists                                         *)
(***************************************************************************)

\* No run is in progress: the variables of run and of the AI scan are idle.
NoRun ==
    /\ gmp = DocSet(GMP, <<>>)
    /\ bid = DocSet(BID, <<>>)
    /\ addenda = NoSet
    /\ fuzz = 90
    /\ to_name = "BID"
    /\ by_sheet = EmptyMap
    /\ results = <<>>
    /\ todo = <<>>
    /\ rows = <<>>
    /\ matches = <<>>
    /\ changes = <<>>
    /\ inventory = <<>>
    /\ ai_config = NoAiConfig
    /\ reviewed = 0
    /\ ai_findings = <<>>

\* '2. Provide grounding'
NoteGrounding ==
    <<"2","."," ","P","r","o","v","i","d","e"," ","g","r","o","u","n","d","i",
      "n","g">>

\* Note items as callers may pass them: padded with whitespace, blank, empty.
NoteItems ==
    {TextNoteA, <<" ">> \o TextNoteA \o <<" ", " ">>, NoteGrounding,
     NoteGrounding \o <<"\n">>, <<" ", " ">>, <<>>}

MaxNotes == 2

InitNotes ==
    /\ NoRun
    /\ config = EmptyMap
    /\ pc = "call"
    /\ \E b \in SeqsUpTo(NoteItems, MaxNotes), a \in SeqsUpTo(NoteItems, MaxNotes) :
           call_args = [before |-> b, after |-> a]
    /\ call_result = <<>>

\* diff_note_lists(before, after) is called and returns.
CallDiffNoteLists ==
    /\ pc = "call"
    /\ call_result' = diff_note_lists(call_args.before, call_args.after)
    /\ pc' = "returned"
    /\ UNCHANGED <<gmp, bid, addenda, config, fuzz, to_name, by_sheet, results,
                   todo, rows, matches, changes, inventory, call_args,
                   ai_vars>>

NextNotes == CallDiffNoteLists

SpecNotes == InitNotes /\ [][NextNotes]_vars

(***************************************************************************)
(* Direct calls of diff_tables and compare_sets on schedules               *)
(***************************************************************************)

\* extract_tables, ingest.py line 56: [(cell or "").strip() for cell in row]
CleanRow(row) ==
    [k \in 1..Len(row) |-> IF row[k] = None THEN <<>> ELSE Strip(row[k])]

CleanTable(table) == [r \in 1..Len(table) |-> CleanRow(table[r])]

\* extract_tables, ingest.py lines 55-58: the cleaned tables of two rows or
\* more.
extract_tables(raw) ==
    SelectSeq([k \in 1..Len(raw) |-> CleanTable(raw[k])],
              LAMBDA cleaned : Len(cleaned) >= 2)

RowHead == <<CellMark, CellQty>>

RowP1 == <<CellP1, CellOne>>

RowP2 == <<CellP2, CellOne>>

\* The tables of a page as pdfplumber returns them: rows in either order,
\* padded cells, rows of blank or missing cells, rows without cells, a
\* table of one row, and the same rows spread over two tables.
RawTableLists ==
    {<<>>,
     << <<RowHead, RowP1>> >>,
     << << << <<" ">> \o CellMark, CellQty>>, <<CellP1, CellOne \o <<" ">> >> >> >>,
     << <<RowP1, RowHead>> >>,
     << <<RowHead, RowP1, RowP2>> >>,
     << <<RowHead, RowP1, << <<" ">>, <<>> >> >> >>,
     << <<RowHead, RowP1, <<None, None>> >> >>,
     << <<RowHead, RowP1, <<>> >> >>,
     << <<RowHead, RowP1>>, <<RowP2>> >>,
     << <<RowHead, RowP2>>, <<RowP1, RowP2>> >>}

TableConfigs == {EmptyMap, [diff |-> [max_snippet_chars |-> 20]]}

\* A page of sheet A-101 with the tables that extract_tables keeps.
TablePage(raw) ==
    IngestPages(<<Content(SheetA101, None, "Architectural", TextNoteA,
                          extract_tables(raw), {})>>)

InitTables ==
    /\ \E raw \in RawTableLists : gmp = DocSet(GMP, TablePage(raw))
    /\ \E raw \in RawTableLists : bid = DocSet(BID, TablePage(raw))
    /\ addenda = NoSet
    /\ config \in TableConfigs
    /\ fuzz = 90
    /\ pc = "call"
    /\ to_name = "BID"
    /\ by_sheet = EmptyMap
    /\ results = <<>>
    /\ todo = <<>>
    /\ rows = <<>>
    /\ matches = match_pages(gmp, bid, EmptyMap)
    /\ changes = <<>>
    /\ inventory = <<>>
    /\ call_args = [before_tables |-> gmp.pages[1].tables,
                    after_tables |-> bid.pages[1].tables]
    /\ call_result = <<>>
    /\ ai_config = NoAiConfig
    /\ reviewed = 0
    /\ ai_findings = <<>>

\* diff_tables(before_tables, after_tables) is called and returns.
CallDiffTables ==
    /\ pc = "call"
    /\ call_result' = diff_tables(call_args.before_tables,
                                  call_args.after_tables)
    /\ pc' = "diffed"
    /\ UNCHANGED <<gmp, bid, addenda, config, fuzz, to_name, by_sheet, results,
                   todo, rows, matches, changes, inventory, call_args,
                   ai_vars>>

\* compare_sets(config, gmp, bid, matches) is called and returns (run, line
\* 166).
CallCompareSets ==
    /\ pc = "diffed"
    /\ changes' = compare_sets(config, gmp, bid, matches)
    /\ pc' = "returned"
    /\ UNCHANGED <<gmp, bid, addenda, config, fuzz, to_name, by_sheet, results,
                   todo, rows, matches, inventory, call_args, call_result,
                   ai_vars>>

NextTables == CallDiffTables \/ CallCompareSets

SpecTables == InitTables /\ [][NextTables]_vars

(***************************************************************************)
(* Direct calls of inventory_changes                                       *)
(***************************************************************************)

\* 'E-201'
SheetE201 ==
    <<"E","-","2","0","1">>

\* Pages of three sheets and a page without sheet identifier.
InventoryCatalogue ==
    {Content(SheetA101, None, guess_discipline(SheetA101), TextNoteA, <<>>, {}),
     Content(SheetE201, None, guess_discipline(SheetE201), TextNoteA, <<>>, {}),
     Content(SheetX900, None, guess_discipline(SheetX900), TextPlain, <<>>, {}),
     Content(None, None, guess_discipline(None), TextPlain, <<>>, {})}

MaxInventory == 2

InitInventory ==
    /\ \E c \in SeqsUpTo(InventoryCatalogue, MaxInventory) :
           gmp = DocSet(GMP, IngestPages(c))
    /\ \E c \in SeqsUpTo(InventoryCatalogue, MaxInventory) :
           bid = DocSet(BID, IngestPages(c))
    /\ addenda = NoSet
    /\ config = EmptyMap
    /\ fuzz = 90
    /\ pc = "call"
    /\ to_name = "BID"
    /\ by_sheet = EmptyMap
    /\ results = <<>>
    /\ todo = <<>>
    /\ rows = <<>>
    /\ matches = <<>>
    /\ changes = <<>>
    /\ inventory = <<>>
    /\ call_args = <<>>
    /\ call_result = <<>>
    /\ ai_config = NoAiConfig
    /\ reviewed = 0
    /\ ai_findings = <<>>

\* inventory_changes(gmp, bid) is called and returns.
CallInventoryChanges ==
    /\ pc = "call"
    /\ inventory' = inventory_changes(gmp, bid)
    /\ pc' = "returned"
    /\ UNCHANGED <<gmp, bid, addenda, config, fuzz, to_name, by_sheet, results,
                   todo, rows, matches, changes, call_args, call_result,
                   ai_vars>>

NextInventory == CallInventoryChanges

SpecInventory == InitInventory /\ [][NextInventory]_vars

(***************************************************************************)
(* cli.run with a heading pattern that does not compile                    *)
(***************************************************************************)

\* Configurations whose spec_section_patterns hold an unparsable entry.
BrokenConfigs ==
    {[spec_section_patterns |-> <<PatUnterminated>>],
     [spec_section_patterns |-> <<PatSectionNumber, PatUnterminated>>,
      flags |-> ConfigFlags]}

InitStartup ==
    /\ \E c \in SeqsUpTo(RunCatalogue, MaxGmp) :
           gmp = DocSet(GMP, IngestPages(c))
    /\ \E c \in SeqsUpTo(RunCatalogue, MaxBid) :
           bid = DocSet(BID, IngestPages(c))
    /\ \/ addenda = NoSet
       \/ \E c \in SeqsUpTo(RunCatalogue, MaxAddenda) \ {<<>>} :
              addenda = DocSet(ADDENDA, IngestPages(c))
    /\ config \in BrokenConfigs
    /\ fuzz = 90
    /\ pc = "startup"
    /\ to_name = "BID"
    /\ by_sheet = EmptyMap
    /\ results = <<>>
    /\ todo = <<>>
    /\ rows = <<>>
    /\ matches = <<>>
    /\ changes = <<>>
    /\ inventory = <<>>
    /\ call_args = <<>>
    /\ call_result = <<>>
    /\ ai_config = NoAiConfig
    /\ reviewed = 0
    /\ ai_findings = <<>>

\* run, lines 154-161: load_config returns what yaml.safe_load read, without
\* looking at the patterns, and ingest_set returns the pages of GMP and BID.
LoadAndIngest ==
    /\ pc = "startup"
    /\ pc' = "match"
    /\ UNCHANGED <<gmp, bid, addenda, config, fuzz, to_name, by_sheet,
                   results, todo, rows, matches, changes, inventory,
                   call_args, call_result, ai_vars>>

\* compare_sets, lines 130-132: re.error leaves extract_spec_sections,
\* compare_sets and run.
CompareRaise ==
    /\ pc = "compare"
    /\ todo # <<>>
    /\ SpecRaises(config, Head(todo)) = TRUE
    /\ pc' = "raised"
    /\ UNCHANGED <<gmp, bid, addenda, config, fuzz, to_name, by_sheet,
                   results, todo, rows, matches, changes, inventory,
                   call_args, call_result, ai_vars>>

NextStartup ==
    \/ LoadAndIngest
    \/ MatchBid
    \/ MatchPage
    \/ MatchReturn
    \/ ComparePair
    \/ CompareRaise
    \/ CompareReturn
    \/ Inventory
    \/ AddendaSkip
    \/ MatchAddenda
    \/ Write

SpecStartup == InitStartup /\ [][NextStartup]_vars

(***************************************************************************)
(* Direct calls of normalize_sheet_id                                      *)
(***************************************************************************)

\* Prefixes of one to four letters as they are spelled, with their upper-case
\* form.
SheetPrefixes ==
    {[spelled |-> <<"A">>, upper |-> <<"A">>],
     [spelled |-> <<"a">>, upper |-> <<"A">>],
     [spelled |-> <<"F","P">>, upper |-> <<"F","P">>],
     [spelled |-> <<"f","p">>, upper |-> <<"F","P">>],
     [spelled |-> <<"F"," ","p">>, upper |-> <<"F","P">>],
     [spelled |-> <<"M","e","c","h">>, upper |-> <<"M","E","C","H">>]}

\* Suffixes that begin with a digit, with their upper-case form.
SheetSuffixes ==
    {[spelled |-> <<"1","0","1">>, upper |-> <<"1","0","1">>],
     [spelled |-> <<"1"," ","0","1">>, upper |-> <<"1","0","1">>],
     [spelled |-> <<"2",".","1">>, upper |-> <<"2",".","1">>],
     [spelled |-> <<"5","a">>, upper |-> <<"5","A">>],
     [spelled |-> <<"5","A">>, upper |-> <<"5","A">>]}

\* What stands between prefix and suffix: nothing, "-" or "_", with or
\* without whitespace around it.
SheetSeparators ==
    {<<>>, <<"-">>, <<"_">>, <<" ">>, <<" ","-"," ">>, <<"_","\t">>}

\* Whitespace before and after an identifier.
SheetPaddings == {<<>>, <<" ">>, <<"\n">>}

\* Strings that are no sheet identifiers: no digit, two separators, no prefix,
\* a prefix of five letters, a suffix with a hyphen, nothing at all.
OtherSheetTexts ==
    {<<"n","o","t","e","s">>, <<"A","-","_","1">>, <<"1","2">>,
     <<"A","B","C","D","E","1">>, <<"a","-","1","0","-","1">>, <<"A","-">>,
     <<" ">>, <<>>}

\* The spellings of identifiers that callers pass to normalize_sheet_id.
SheetSpellings ==
    {lead \o p.spelled \o sep \o s.spelled \o trail :
        lead \in SheetPaddings, p \in SheetPrefixes, sep \in SheetSeparators,
        s \in SheetSuffixes, trail \in SheetPaddings}

InitSheetId ==
    /\ NoRun
    /\ config = EmptyMap
    /\ pc = "call"
    /\ call_args \in SheetSpellings \cup OtherSheetTexts
    /\ call_result = <<>>

\* normalize_sheet_id(sheet_id) is called and returns.
CallNormalizeSheetId ==
    /\ pc = "call"
    /\ call_result' = normalize_sheet_id(call_args)
    /\ pc' = "returned"
    /\ UNCHANGED <<gmp, bid, addenda, config, fuzz, to_name, by_sheet, results,
                   todo, rows, matches, changes, inventory, call_args,
                   ai_vars>>

\* choose_best_sheet_id, line 55, and any later caller pass a returned
\* identifier to normalize_sheet_id again.
CallAgain ==
    /\ pc = "returned"
    /\ call_result # call_args
    /\ call_args' = call_result
    /\ call_result' = <<>>
    /\ pc' = "call"
    /\ UNCHANGED <<gmp, bid, addenda, config, fuzz, to_name, by_sheet, results,
                   todo, rows, matches, changes, inventory, ai_vars>>

NextSheetId == CallNormalizeSheetId \/ CallAgain

SpecSheetId == InitSheetId /\ [][NextSheetId]_vars

(***************************************************************************)
(* Direct calls of _candidate_pool                                         *)
(***************************************************************************)

\* The pages of the matching engine, a sheet of a third discipline and a
\* page without identifier and discipline.
PoolCatalogue ==
    MatchCatalogue \cup
    {Content(SheetE201, None, "Electrical", TextPlain, <<>>, {}),
     Content(None, None, "Unknown", TextPlain, <<>>, {})}

MaxPool == 3

InitPool ==
    /\ \E c \in PoolCatalogue : gmp = DocSet(GMP, IngestPages(<<c>>))
    /\ \E c \in SeqsUpTo(PoolCatalogue, MaxPool) :
           bid = DocSet(BID, IngestPages(c))
    /\ addenda = NoSet
    /\ config = EmptyMap
    /\ fuzz = 90
    /\ pc = "call"
    /\ to_name = "BID"
    /\ by_sheet = EmptyMap
    /\ results = <<>>
    /\ todo = <<>>
    /\ rows = <<>>
    /\ matches = <<>>
    /\ changes = <<>>
    /\ inventory = <<>>
    /\ call_args = <<>>
    /\ call_result = <<>>
    /\ ai_config = NoAiConfig
    /\ reviewed = 0
    /\ ai_findings = <<>>

\* match_pages, lines 91-94: the index by sheet identifier is built.
BuildIndex ==
    /\ pc = "call"
    /\ by_sheet' = BuildBySheet(bid.pages)
    /\ pc' = "indexed"
    /\ UNCHANGED <<gmp, bid, addenda, config, fuzz, to_name, results, todo,
                   rows, matches, changes, inventory, call_args, call_result,
                   ai_vars>>

\* match_pages, line 98: _candidate_pool(src, to_set.pages, by_sheet) is
\* called and returns.
CallCandidatePool ==
    /\ pc = "indexed"
    /\ call_result' = _candidate_pool(gmp.pages[1], bid.pages, by_sheet)
    /\ pc' = "returned"
    /\ UNCHANGED <<gmp, bid, addenda, config, fuzz, to_name, by_sheet, results,
                   todo, rows, matches, changes, inventory, call_args,
                   ai_vars>>

NextPool == BuildIndex \/ CallCandidatePool

SpecPool == InitPool /\ [][NextPool]_vars

(***************************************************************************)
(* Direct calls of match_pages and compare_sets on notes and schedules     *)
(***************************************************************************)

\* '1. Provide conduit\n2. Seal'
TextNoteSeal ==
    <<"1","."," ","P","r","o","v","i","d","e"," ","c","o","n","d","u","i","t",
      "\n","2","."," ","S","e","a","l">>

\* 'Conduit'
CellConduit ==
    <<"C","o","n","d","u","i","t">>

RowConduit == <<CellConduit, CellOne>>

\* Sheets A-101 with notes and schedules, among them a note of seven
\* characters and a schedule row that holds a flag term, and two
\* specification pages.
CompareCatalogue ==
    {Content(SheetA101, None, guess_discipline(SheetA101), TextNoteA,
             << <<RowHead, RowP1>> >>, {}),
     Content(SheetA101, None, guess_discipline(SheetA101), TextNoteAB,
             << <<RowHead, RowP1, RowP2>> >>, {}),
     Content(SheetA101, None, guess_discipline(SheetA101), TextNoteSeal,
             << <<RowHead, RowP2>> >>, {}),
     Content(SheetA101, None, guess_discipline(SheetA101), TextEmpty,
             << <<RowHead, RowConduit>> >>, {}),
     Content(None, None, guess_discipline(None), TextSpec1, <<>>, {}),
     Content(None, None, guess_discipline(None), TextSpec12, <<>>, {})}

\* Configurations with flag groups and heading patterns: the defaults of
\* diff, a snippet limit of the length of one note, and a minimum bullet
\* length below and above the default.
CompareConfigs ==
    {[spec_section_patterns |-> <<PatSectionNumber>>, flags |-> ConfigFlags,
      diff |-> d] :
        d \in {EmptyMap, [max_snippet_chars |-> 18],
               [note_bullet_min_len |-> 5], [note_bullet_min_len |-> 30]}}

MaxCompareFrom == 2

MaxCompareTo == 1

InitCompare ==
    /\ \E c \in SeqsUpTo(CompareCatalogue, MaxCompareFrom) :
           gmp = DocSet(GMP, IngestPages(c))
    /\ \E c \in SeqsUpTo(CompareCatalogue, MaxCompareTo) :
           bid = DocSet(BID, IngestPages(c))
    /\ addenda = NoSet
    /\ config \in CompareConfigs
    /\ fuzz = 90
    /\ pc = "call"
    /\ to_name = "BID"
    /\ by_sheet = EmptyMap
    /\ results = <<>>
    /\ todo = <<>>
    /\ rows = <<>>
    /\ matches = <<>>
    /\ changes = <<>>
    /\ inventory = <<>>
    /\ call_args = <<>>
    /\ call_result = <<>>
    /\ ai_config = NoAiConfig
    /\ reviewed = 0
    /\ ai_findings = <<>>

\* match_pages(gmp, bid, weight_cfg) is called and returns (run, line 165).
CallMatchPages ==
    /\ pc = "call"
    /\ matches' = match_pages(gmp, bid, WeightCfg)
    /\ pc' = "diffed"
    /\ UNCHANGED <<gmp, bid, addenda, config, fuzz, to_name, by_sheet, results,
                   todo, rows, changes, inventory, call_args, call_result,
                   ai_vars>>

\* compare_sets, lines 102-137: the rows list before duplicates are merged.
CallCompareRows ==
    /\ pc = "diffed"
    /\ rows' = RowsOfMatches(config, gmp, bid, matches)
    /\ pc' = "rows"
    /\ UNCHANGED <<gmp, bid, addenda, config, fuzz, to_name, by_sheet, results,
                   todo, matches, changes, inventory, call_args, call_result,
                   ai_vars>>

\* compare_sets, lines 139-140: the rows are merged by change_id and returned.
CompareMerged ==
    /\ pc = "rows"
    /\ changes' = Dedupe(rows)
    /\ pc' = "returned"
    /\ UNCHANGED <<gmp, bid, addenda, config, fuzz, to_name, by_sheet, results,
                   todo, rows, matches, inventory, call_args, call_result,
                   ai_vars>>

NextCompare == CallMatchPages \/ CallCompareRows \/ CompareMerged

SpecCompare == InitCompare /\ [][NextCompare]_vars

(***************************************************************************)
(* Direct calls of simhash64 and hamming_similarity                        *)
(***************************************************************************)

WordRoof == <<"r","o","o","f">>

WordSeal == <<"s","e","a","l">>

WordWool == <<"w","o","o","l">>

WordDrain == <<"d","r","a","i","n">>

SimWords ==
    {WordRoof, WordSeal, WordWool, WordDrain, <<"p","a","n","e","l">>,
     <<"b","o","a","r","d">>}

\* Texts without a token, with upper case, and with shorter runs between
\* tokens.
OtherSimTexts ==
    {<<>>, <<"a","b">>, <<"A","-","1"," ","b","2">>,
     <<"R","o","o","f"," ","D","R","A","I","N">>,
     <<"a","b"," ","r","o","o","f",","," ","c","d">>}

MaxSimTokens == 3

MaxSimTail == 1

\* Texts of up to MaxSimTokens words, separated by a blank or a hyphen.
SimTexts ==
    {Join(ws, sep) : ws \in SeqsUpTo(SimWords, MaxSimTokens),
                     sep \in {<<" ">>, <<"-">>}} \cup OtherSimTexts

\* n tokens, roof and seal by turns.
Alternating(n) == [k \in 1..n |-> IF k % 2 = 1 THEN WordRoof ELSE WordSeal]

\* The token lists of long texts: TokenCap - 1 or TokenCap tokens followed
\* by up to MaxSimTail more.
LongTokenLists ==
    {Alternating(n) \o tail :
        n \in {TokenCap - 1, TokenCap},
        tail \in SeqsUpTo({WordWool, WordDrain}, MaxSimTail)}

InitSimhash ==
    /\ NoRun
    /\ config = EmptyMap
    /\ pc = "call"
    /\ \/ \E t \in SimTexts : call_args = [kind |-> "text", text |-> t]
       \/ \E l \in LongTokenLists : call_args = [kind |-> "tokens", tokens |-> l]
    /\ call_result = {}

\* simhash64(text) is called and returns.
CallSimhash64 ==
    /\ pc = "call"
    /\ call_args.kind = "text"
    /\ call_result' = simhash64(call_args.text)
    /\ pc' = "returned"
    /\ UNCHANGED <<gmp, bid, addenda, config, fuzz, to_name, by_sheet, results,
                   todo, rows, matches, changes, inventory, call_args,
                   ai_vars>>

\* simhash64 is called with the text " ".join(tokens), of which _tokenize
\* returns the list tokens, and returns.
CallSimhash64Long ==
    /\ pc = "call"
    /\ call_args.kind = "tokens"
    /\ call_result' = SimhashOfTokens(call_args.tokens)
    /\ pc' = "returned"
    /\ UNCHANGED <<gmp, bid, addenda, config, fuzz, to_name, by_sheet, results,
                   todo, rows, matches, changes, inventory, call_args,
                   ai_vars>>

NextSimhash == CallSimhash64 \/ CallSimhash64Long

SpecSimhash == InitSimhash /\ [][NextSimhash]_vars

\* 64-bit values: simhash64 of texts, no bit, every bit, one bit and half
\* of the bits.
HammingSamples ==
    {simhash64(t) : t \in {<<>>, WordRoof, WordSeal, WordWool, TextPlain,
                           TextNoteA}}
    \cup {{}, {0}, {FingerprintBits - 1}, 0..(FingerprintBits \div 2 - 1)}

InitHamming ==
    /\ NoRun
    /\ config = EmptyMap
    /\ pc = "call"
    /\ \E a \in HammingSamples, b \in HammingSamples :
           call_args = [a |-> a, b |-> b]
    /\ call_result = 0

\* hamming_similarity(a, b) is called and returns.
CallHammingSimilarity ==
    /\ pc = "call"
    /\ call_result' = hamming_similarity(call_args.a, call_args.b)
    /\ pc' = "returned"
    /\ UNCHANGED <<gmp, bid, addenda, config, fuzz, to_name, by_sheet, results,
                   todo, rows, matches, changes, inventory, call_args,
                   ai_vars>>

\* The caller passes the same two values in the other order.
CallSwapped ==
    /\ pc = "returned"
    /\ call_args.a # call_args.b
    /\ call_args' = [a |-> call_args.b, b |-> call_args.a, was |-> call_result]
    /\ DOMAIN call_args = {"a", "b"}
    /\ call_result' = 0
    /\ pc' = "call"
    /\ UNCHANGED <<gmp, bid, addenda, config, fuzz, to_name, by_sheet, results,
                   todo, rows, matches, changes, inventory, ai_vars>>

NextHamming == CallHammingSimilarity \/ CallSwapped

SpecHamming == InitHamming /\ [][NextHamming]_vars

(***************************************************************************)
(* Direct calls of extract_spec_sections                                   *)
(***************************************************************************)

\* '07 21 00'
Key0721 == <<"0","7"," ","2","1"," ","0","0">>

\* '09 29 00'
Key0929 == <<"0","9"," ","2","9"," ","0","0">>

\* Pieces of specification text: a heading with a body, the same heading
\* with another body of the same length, the heading in lower case and with
\* two blanks and a longer body, a second heading, and text without a
\* heading. key is the section key of the heading, <<>> without one.
SpecPieces ==
    {[key |-> Key0721,
      text |-> <<"S","E","C","T","I","O","N"," ","0","7"," ","2","1"," ","0",
                 "0","\n","w","o","o","l","\n">>],
     [key |-> Key0721,
      text |-> <<"S","E","C","T","I","O","N"," ","0","7"," ","2","1"," ","0",
                 "0","\n","r","o","o","f","\n">>],
     [key |-> Key0721,
      text |-> <<"s","e","c","t","i","o","n"," ","0","7"," "," ","2","1"," ",
                 "0","0","\n","t","h","e","r","m","a","l","\n">>],
     [key |-> Key0929,
      text |-> <<"S","E","C","T","I","O","N"," ","0","9"," ","2","9"," ","0",
                 "0","\n","b","o","a","r","d","\n">>],
     [key |-> <<>>,
      text |-> <<" ","d","r","a","i","n","\n">>]}

MaxSpecPieces == 3

RECURSIVE Concat(_)
\* The texts of the pieces, one after the other.
Concat(pieces) ==
    IF pieces = <<>> THEN <<>> ELSE pieces[1].text \o Concat(Tail(pieces))

\* The heading patterns of a configuration: the pattern once or twice.
PatternLists == {<<PatSectionNumber>>, <<PatSectionNumber, PatSectionNumber>>}

InitSections ==
    /\ NoRun
    /\ config = EmptyMap
    /\ pc = "call"
    /\ \E pieces \in SeqsUpTo(SpecPieces, MaxSpecPieces), pats \in PatternLists :
           call_args = [text |-> Concat(pieces), patterns |-> pats,
                        pieces |-> pieces]
    /\ call_result = EmptyMap

\* extract_spec_sections(text, patterns) is called and returns.
CallExtractSpecSections ==
    /\ pc = "call"
    /\ call_result' = extract_spec_sections(call_args.text, call_args.patterns)
    /\ pc' = "returned"
    /\ UNCHANGED <<gmp, bid, addenda, config, fuzz, to_name, by_sheet, results,
                   todo, rows, matches, changes, inventory, call_args,
                   ai_vars>>

NextSections == CallExtractSpecSections

SpecSections == InitSections /\ [][NextSections]_vars

(***************************************************************************)
(* Properties of matching                                                  *)
(***************************************************************************)

\* C1: match_pages returns exactly one MatchResult per source page, in
\* source order: the i-th result's from_page is the i-th source page, also
\* when the target set is empty.
C1_OnePerSourcePage ==
    /\ \A i \in 1..Len(results) :
           i <= Len(gmp.pages) /\ results[i].from_page = gmp.pages[i]
    /\ pc = "compare" =>
           /\ Len(matches) = Len(gmp.pages)
           /\ \A i \in 1..Len(matches) : matches[i].from_page = gmp.pages[i]

C1_Witness ==
    /\ pc = "compare"
    /\ Len(matches) = 2
    /\ gmp.pages[1].text # gmp.pages[2].text
    /\ bid.pages # <<>>

SameSheetId(src, dst) ==
    Truthy(src.sheet_id) /\ Truthy(dst.sheet_id) /\ src.sheet_id = dst.sheet_id

SheetIdExactWeight == WeightGet(WeightCfg, "sheet_id_exact", 60)

OtherWeightsNonNegative ==
    /\ WeightGet(WeightCfg, "title_similarity", 20) >= 0
    /\ WeightGet(WeightCfg, "discipline_similarity", 10) >= 0
    /\ WeightGet(WeightCfg, "fingerprint_similarity", 10) >= 0

\* C2 as stated: two pages with equal, present sheet identifiers score at
\* least the configured sheet_id_exact weight, whatever the other weights.
C2_AnyWeights ==
    (pc = "returned" /\ SameSheetId(call_args.src, call_args.dst)) =>
        call_result.score >= SheetIdExactWeight * ScoreScale

\* C2 amended: two pages with equal, present sheet identifiers score at
\* least the configured sheet_id_exact weight whenever the title,
\* discipline and fingerprint weights are not negative.
C2_NonNegativeWeights ==
    (/\ pc = "returned"
     /\ SameSheetId(call_args.src, call_args.dst)
     /\ OtherWeightsNonNegative) =>
        call_result.score >= SheetIdExactWeight * ScoreScale

C2_Witness ==
    /\ pc = "returned"
    /\ SameSheetId(call_args.src, call_args.dst)
    /\ OtherWeightsNonNegative
    /\ SheetIdExactWeight = 35
    /\ call_args.src.sheet_title_hint # call_args.dst.sheet_title_hint
    /\ call_args.src.fingerprint # call_args.dst.fingerprint

\* C3: every MatchResult has confidence High exactly when its score is at
\* least 80, Med exactly when it is at least 55 and below 80, and Low
\* exactly when it is below 55.
C3_ConfidenceTiers ==
    \A i \in 1..Len(results) :
        /\ results[i].confidence = "High" <=> results[i].score >= 80 * ScoreScale
        /\ results[i].confidence = "Med" <=>
               (results[i].score >= 55 * ScoreScale
                /\ results[i].score < 80 * ScoreScale)
        /\ results[i].confidence = "Low" <=> results[i].score < 55 * ScoreScale

C3_Witness ==
    /\ Len(results) = 2
    /\ results[1].score = 80 * ScoreScale
    /\ results[1].confidence = "High"
    /\ results[2].to_page # NoPage
    /\ results[2].confidence = "Med"

\* C4: with an empty target set every source page gets a MatchResult with
\* no target, score 0, confidence Low and the one evidence "no candidate".
C4_EmptyPool ==
    ToSet.pages = <<>> =>
        \A i \in 1..Len(results) :
            results[i] = MatchResult(gmp.pages[i], NoPage, 0, "Low",
                                     << <<"no candidate">> >>)

C4_Witness ==
    /\ pc = "compare"
    /\ bid.pages = <<>>
    /\ Len(matches) = 2
    /\ matches[2].to_page = NoPage

\* The target set holds a page with the source's sheet identifier and text.
HasTwin(src, to_pages) ==
    \E k \in 1..Len(to_pages) :
        SameSheetId(src, to_pages[k]) /\ to_pages[k].text = src.text

\* As HasTwin, the twin also sharing a known discipline with the source and
\* neither page carrying a stored fingerprint.
HasKnownTwin(src, to_pages) ==
    \E k \in 1..Len(to_pages) :
        /\ SameSheetId(src, to_pages[k])
        /\ to_pages[k].text = src.text
        /\ src.discipline # "Unknown"
        /\ to_pages[k].discipline = src.discipline
        /\ src.fingerprint = {}
        /\ to_pages[k].fingerprint = {}

\* C6 as stated: with the default weights a source page whose target set
\* holds a page with the same sheet identifier and identical text is matched
\* with score >= 80 and confidence High, whatever disciplines and titles.
C6_AnyDiscipline ==
    WeightCfg = EmptyMap =>
        \A i \in 1..Len(results) :
            HasTwin(gmp.pages[i], ToSet.pages) =>
                /\ results[i].score >= 80 * ScoreScale
                /\ results[i].confidence = "High"

\* C6 amended: the same, for a twin that shares a discipline other than
\* Unknown with the source page, neither page having a stored fingerprint.
C6_KnownDiscipline ==
    WeightCfg = EmptyMap =>
        \A i \in 1..Len(results) :
            HasKnownTwin(gmp.pages[i], ToSet.pages) =>
                /\ results[i].score >= 80 * ScoreScale
                /\ results[i].confidence = "High"

C6_Witness ==
    /\ WeightCfg = EmptyMap
    /\ Len(results) = 1
    /\ HasKnownTwin(gmp.pages[1], bid.pages)
    /\ gmp.pages[1].sheet_title_hint = None
    /\ results[1].to_page.sheet_title_hint = None
    /\ results[1].score = 80 * ScoreScale

(***************************************************************************)
(* Properties of change detection                                          *)
(***************************************************************************)

\* The target page of a match has the text and the tables of its source.
SameContent(m) ==
    /\ m.to_page # NoPage
    /\ m.to_page.text = m.from_page.text
    /\ m.to_page.tables = m.from_page.tables

\* The rows that a step of compare_sets' loop appends.
Appended == SubSeq(rows', Len(rows) + 1, Len(rows'))

\* C5: for a match whose target page has the same text and the same tables
\* as its source page, compare_sets appends no ChangeRow (no note, table or
\* spec-section record), for any configuration.
C5_UnchangedNoRecords ==
    [][(pc = "compare" /\ todo # <<>> /\ SameContent(Head(todo)))
           => rows' = rows]_vars

C5_Witness ==
    /\ pc = "compare"
    /\ todo = <<>>
    /\ Len(results) = 2
    /\ SameContent(results[1])
    /\ SameContent(results[2])
    /\ split_note_bullets(results[1].from_page.text, NoteBulletMinLen) # <<>>
    /\ results[1].from_page.tables # <<>>
    /\ "flags" \in DOMAIN config
    /\ rows = <<>>

\* Both pages of a matched pair carry section headings that the configured
\* patterns recognise.
SpecPair(m) ==
    /\ m.to_page # NoPage
    /\ SpecPatterns(config) # <<>>
    /\ HasSectionWord(m.from_page.text)
    /\ HasSectionWord(m.to_page.text)

SectionsOfPage(page) == extract_spec_sections(page.text, SpecPatterns(config))

\* The places in a list of rows of the Spec rows about the section sec.
SpecRowsAbout(list, sec) ==
    {k \in 1..Len(list) : list[k].doc_type = "Spec" /\ list[k].reference = sec}

HasSpecRow(list, sec, change_type) ==
    \E k \in SpecRowsAbout(list, sec) : list[k].change_type = change_type

\* What C7 asks of the rows appended for a pair with the sections src, dst.
RemovedAndAdded(src, dst, appended) ==
    /\ \A sec \in DOMAIN src \ DOMAIN dst : HasSpecRow(appended, sec, "Removed")
    /\ \A sec \in DOMAIN dst \ DOMAIN src : HasSpecRow(appended, sec, "Added")

\* C7 as stated: for a matched pair with specification sections, every
\* section key only in the source page yields a Removed ChangeRow for that
\* key, and every key only in the target page yields an Added ChangeRow.
C7_RemovedAndAdded ==
    [][(pc = "compare" /\ todo # <<>> /\ SpecPair(Head(todo)))
           => RemovedAndAdded(SectionsOfPage(Head(todo).from_page),
                              SectionsOfPage(Head(todo).to_page),
                              Appended)]_vars

\* What C8 asks of the rows appended for a pair with the sections src, dst.
ModifiedOnce(src, dst, appended) ==
    \A sec \in DOMAIN src \cap DOMAIN dst :
        IF CollapseSpace(src[sec]) # CollapseSpace(dst[sec])
        THEN /\ Cardinality(SpecRowsAbout(appended, sec)) = 1
             /\ \A k \in SpecRowsAbout(appended, sec) :
                    /\ appended[k].change_type = "Modified"
                    /\ appended[k].before_snippet =
                           Prefix(src[sec], MaxSnippet(config))
                    /\ appended[k].after_snippet =
                           Prefix(dst[sec], MaxSnippet(config))
        ELSE SpecRowsAbout(appended, sec) = {}

\* C8 as stated: for a matched pair with specification sections, a section
\* key on both sides whose whitespace-normalised chunks differ yields exactly
\* one Modified ChangeRow with both chunks cut to max_snippet_chars, and a
\* key on both sides with equal normalised chunks yields no row.
C8_ModifiedOnce ==
    [][(pc = "compare" /\ todo # <<>> /\ SpecPair(Head(todo)))
           => ModifiedOnce(SectionsOfPage(Head(todo).from_page),
                           SectionsOfPage(Head(todo).to_page),
                           Appended)]_vars

RECURSIVE ProducedBy(_, _)
\* The rows compare_sets produces for the matches ms, before deduplication.
ProducedBy(ms, set_to) ==
    IF ms = <<>> THEN <<>>
    ELSE MatchRows(config, gmp, set_to, ms[1]) \o ProducedBy(Tail(ms), set_to)

\* Every ChangeRow produced in the run, in the order of production.
Produced ==
    ProducedBy(SubSeq(matches, 1, Len(gmp.pages)), bid)
    \o (IF addenda = NoSet THEN <<>>
        ELSE ProducedBy(SubSeq(matches, Len(gmp.pages) + 1, Len(matches)),
                        addenda))

UniqueIds(list) ==
    \A i, j \in 1..Len(list) : list[i].change_id = list[j].change_id => i = j

\* Every row of kept is the last row of produced with its identifier.
LastWins(kept, produced) ==
    \A k \in 1..Len(kept) : \E j \in 1..Len(produced) :
        /\ produced[j] = kept[k]
        /\ \A i \in (j + 1)..Len(produced) :
               produced[i].change_id # kept[k].change_id

\* The identifiers of a list of rows.
IdsOf(list) == {list[k].change_id : k \in 1..Len(list)}

\* What C9 asks of the final list, given the rows that were produced.
MergedById(final, produced) ==
    /\ UniqueIds(final)
    /\ LastWins(final, produced)
    /\ Len(final) = Cardinality(IdsOf(produced))

\* C9: in the final change list of a run no two ChangeRows share an
\* identifier, the row kept for an identifier is the last one produced with
\* it, and the list has as many rows as the produced rows have identifiers.
C9_UniqueIds == pc = "done" => MergedById(changes, Produced)

\* Two different rows of the GMP->BID comparison share an identifier.
HasClash(produced) ==
    \E i, j \in 1..Len(produced) :
        /\ i < j
        /\ produced[i].change_id = produced[j].change_id
        /\ produced[i] # produced[j]
        /\ produced[i].set_to = BID

C9_Witness ==
    /\ pc = "done"
    /\ addenda # NoSet
    /\ HasClash(Produced)
    /\ \E k \in 1..Len(changes) : changes[k].set_to = ADDENDA

(***************************************************************************)
(* Properties of impact scoring                                            *)
(***************************************************************************)

\* The rationale fragments of the rules that a call triggers, in rule order.
TriggeredReasons ==
    (IF call_args.change_type \in {"Added", "Removed"}
     THEN <<"sheet/spec presence changed">> ELSE <<>>)
    \o (IF call_args.table_delta THEN <<"schedule row delta">> ELSE <<>>)
    \o (IF call_args.flags = <<"electrical">>
        THEN <<"flags: electrical">>
        ELSE IF call_args.flags = <<"electrical", "scope">>
        THEN <<"flags: electrical, scope">>
        ELSE <<>>)
    \o (IF call_args.after \in {TextNoteA, TextNoteC}
        THEN <<"responsibility language changed">> ELSE <<>>)

\* The sum of the points of the rules that a call triggers.
TriggeredPoints ==
    (IF call_args.change_type \in {"Added", "Removed"} THEN 20 ELSE 0)
    + (IF call_args.table_delta THEN 20 ELSE 0)
    + (IF call_args.flags # <<>> THEN 15 ELSE 0)
    + (IF call_args.after \in {TextNoteA, TextNoteC} THEN 10 ELSE 0)

\* reasons joined by "; "
JoinedBySemicolon(reasons) ==
    IF Len(reasons) = 0 THEN ""
    ELSE IF Len(reasons) = 1 THEN reasons[1]
    ELSE IF Len(reasons) = 2 THEN reasons[1] \o "; " \o reasons[2]
    ELSE IF Len(reasons) = 3
         THEN reasons[1] \o "; " \o reasons[2] \o "; " \o reasons[3]
    ELSE reasons[1] \o "; " \o reasons[2] \o "; " \o reasons[3] \o "; "
         \o reasons[4]

\* C10: compute_impact returns 20 for an Added or Removed change plus 20 for
\* a table delta plus 15 for flags plus 10 for responsibility language in
\* the after text, at most 100, with the reasons of the triggered rules
\* joined by "; " in that order; Added with one flag group and nothing else
\* gives 35 and "sheet/spec presence changed; flags: <group>".
C10_ImpactFormula ==
    pc = "returned" =>
        /\ call_result.score =
               (IF TriggeredPoints < 100 THEN TriggeredPoints ELSE 100)
        /\ call_result.rationale = JoinedBySemicolon(TriggeredReasons)
        /\ (/\ call_args.change_type = "Added"
            /\ call_args.flags = <<"electrical">>
            /\ ~call_args.table_delta
            /\ call_args.after = TextPlain) =>
               call_result =
                   [score |-> 35,
                    rationale |->
                        "sheet/spec presence changed; flags: electrical"]

C10_Witness ==
    /\ pc = "returned"
    /\ call_args.change_type = "Removed"
    /\ call_args.flags = <<"electrical", "scope">>
    /\ call_args.table_delta
    /\ call_args.after = TextNoteC
    /\ call_result.score = 65

(***************************************************************************)
(* Properties of the AI scan                                               *)
(***************************************************************************)

\* Every row of a list of ChangeRows has an integer impact score in 0..100.
ScoresInRange(list) ==
    \A k \in 1..Len(list) : list[k].impact_score \in 0..100

\* C11: every ChangeRow produced in the system, by compare_sets, by
\* inventory_changes and by ai_scan_matches whatever the service returns,
\* has an impact score in the range 0..100.
C11_ImpactInRange ==
    /\ ScoresInRange(changes)
    /\ ScoresInRange(inventory)
    /\ ScoresInRange(ai_findings)

\* C17: a failure while one matched page is enriched, a malformed answer of
\* the service included, is caught for that page only: the scan is never
\* left by an exception, and when it has returned every reviewed page has
\* been passed, the matches are those of the run, and the changes of the
\* run still head the change list.
C17_FailureIsolated ==
    /\ pc # "ai_raised"
    /\ pc = "ai_done" =>
           /\ todo = <<>> \/ reviewed >= ai_config.max_items
           /\ SubSeq(changes, Len(changes) - Len(ai_findings) + 1,
                     Len(changes)) = ai_findings

(***************************************************************************)
(* Properties of the note and table differs                                *)
(***************************************************************************)

\* The non-empty trimmed strings of a list.
Trimmed(items) ==
    {s \in {Strip(items[k]) : k \in 1..Len(items)} : Len(s) > 0}

\* The list is in strictly ascending order, so it holds no string twice.
Ascending(list) ==
    \A k \in 1..(Len(list) - 1) : LexLess(list[k], list[k + 1])

\* The list is the ascending list of the strings of S.
ListsExactly(list, S) ==
    /\ {list[k] : k \in 1..Len(list)} = S
    /\ Ascending(list)

\* C12: diff_note_lists(before, after) returns as added the ascending list
\* of the non-empty trimmed strings of after that are not in before, and as
\* removed the ascending list of those of before that are not in after; the
\* two are disjoint and without duplicates, both empty when the lists hold
\* the same trimmed strings, and swapped when the arguments are swapped.
C12_NoteListDiff ==
    pc = "returned" =>
        /\ ListsExactly(call_result.added,
                        Trimmed(call_args.after) \ Trimmed(call_args.before))
        /\ ListsExactly(call_result.removed,
                        Trimmed(call_args.before) \ Trimmed(call_args.after))
        /\ \A i \in 1..Len(call_result.added) :
               \A j \in 1..Len(call_result.removed) :
                   call_result.added[i] # call_result.removed[j]
        /\ Trimmed(call_args.before) = Trimmed(call_args.after) =>
               call_result = [added |-> <<>>, removed |-> <<>>]
        /\ diff_note_lists(call_args.after, call_args.before) =
               [added |-> call_result.removed, removed |-> call_result.added]
        /\ (call_args.before = <<TextNoteA>>
            /\ call_args.after = <<TextNoteA, NoteGrounding>>) =>
               call_result = [added |-> <<NoteGrounding>>, removed |-> <<>>]

\* A padded item on one side, its bare form and a second item on the other.
C12_Witness ==
    /\ pc = "returned"
    /\ call_args.before = <<<<" ">> \o TextNoteA \o <<" ", " ">>, <<" ", " ">>>>
    /\ call_args.after = <<NoteGrounding \o <<"\n">>, TextNoteA>>
    /\ call_result = [added |-> <<NoteGrounding>>, removed |-> <<>>]

\* The signature of a row: its non-empty whitespace-normalised cells joined
\* by " | ".
SignatureOf(row) ==
    Join(SelectSeq([k \in 1..Len(row) |-> CollapseSpace(Strip(row[k]))],
                   LAMBDA cell : Len(cell) > 0),
         <<" ", "|", " ">>)

\* The distinct signatures of the rows of all tables of one side.
SignaturesOn(tables) ==
    UNION {{SignatureOf(tables[t][r]) :
               r \in {q \in 1..Len(tables[t]) : Len(tables[t][q]) > 0}} :
           t \in 1..Len(tables)}

\* The table rows among a list of ChangeRows.
TableRecords(list) ==
    SelectSeq(list, LAMBDA row :
        row.change_type = "Modified" /\ row.doc_type = "Drawing")

\* C13: diff_tables returns as rows_added the number of distinct row
\* signatures of the after side that the before side lacks, and as
\* rows_removed the converse; compare_sets emits a table ChangeRow for a
\* matched pair exactly when one of the two counts is not zero, so rows that
\* only moved within or across tables give no row.
C13_TableDelta ==
    /\ pc \in {"diffed", "returned"} =>
           /\ call_result.added =
                  Cardinality(SignaturesOn(call_args.after_tables)
                              \ SignaturesOn(call_args.before_tables))
           /\ call_result.removed =
                  Cardinality(SignaturesOn(call_args.before_tables)
                              \ SignaturesOn(call_args.after_tables))
    /\ pc = "returned" =>
           /\ Len(TableRecords(changes)) =
                  (IF call_result.added # 0 \/ call_result.removed # 0
                   THEN 1 ELSE 0)
           /\ SignaturesOn(call_args.before_tables) =
                  SignaturesOn(call_args.after_tables) => changes = <<>>

\* The rows of one table on the before side are spread over two tables, in
\* another order, on the after side.
C13_Witness ==
    /\ pc = "returned"
    /\ call_args.before_tables = << <<RowHead, RowP1, RowP2>> >>
    /\ call_args.after_tables = << <<RowHead, RowP2>>, <<RowP1, RowP2>> >>
    /\ call_result = [added |-> 0, removed |-> 0]
    /\ changes = <<>>

\* A row all of whose cells are empty or whitespace.
FullyEmpty(row) == \A k \in 1..Len(row) : Strip(row[k]) = <<>>

\* The tables without their fully empty rows.
WithoutEmptyRows(tables) ==
    [t \in 1..Len(tables) |->
        SelectSeq(tables[t], LAMBDA row : ~FullyEmpty(row))]

\* C14: a table row all of whose cells are empty or whitespace is skipped:
\* the counts of diff_tables are those of the tables without such rows, and
\* tables that differ only in such rows cause no table ChangeRow.
C14_EmptyRowsSkipped ==
    /\ pc \in {"diffed", "returned"} =>
           call_result = diff_tables(WithoutEmptyRows(call_args.before_tables),
                                     WithoutEmptyRows(call_args.after_tables))
    /\ (/\ pc = "returned"
        /\ WithoutEmptyRows(call_args.before_tables) =
               WithoutEmptyRows(call_args.after_tables)) =>
           TableRecords(changes) = <<>>

(***************************************************************************)
(* Properties of the inventory                                             *)
(***************************************************************************)

\* The Removed rows of an inventory that refer to a page of the source set.
RemovedRowsFor(list, page) ==
    SelectSeq(list, LAMBDA row :
        /\ row.change_type = "Removed"
        /\ row.set_from = GMP
        /\ row.set_to = BID
        /\ row.reference = page.sheet_id)

\* C15: once run has the inventory of GMP and BID, every GMP page whose
\* MatchResult has no BID page has one Removed row of that inventory
\* referring to it, whether or not the page carries a sheet identifier.
C15_UnmatchedSurfaces ==
    (pc = "addenda") =>
        \A k \in 1..Len(matches) :
            (matches[k].to_page = NoPage) =>
                Len(RemovedRowsFor(inventory, matches[k].from_page)) = 1

\* The sheet identifiers that occur on the pages of a set.
SheetsOf(set) ==
    {set.pages[k].sheet_id : k \in 1..Len(set.pages)} \ {None, <<>>}

\* The number of rows of a list that refer to a sheet identifier.
RowsAbout(list, id, change_type) ==
    Cardinality({k \in 1..Len(list) :
        list[k].reference = id /\ list[k].change_type = change_type})

\* C16: inventory_changes returns one Added row for each sheet identifier of
\* the target set that the source set lacks, one Removed row for each
\* identifier of the source set that the target set lacks, and nothing else;
\* the Added rows come first, and each group is in ascending order of
\* identifier.
C16_InventoryExact ==
    (pc = "returned") =>
        /\ \A id \in SheetsOf(bid) \ SheetsOf(gmp) :
               RowsAbout(inventory, id, "Added") = 1
        /\ \A id \in SheetsOf(gmp) \ SheetsOf(bid) :
               RowsAbout(inventory, id, "Removed") = 1
        /\ Len(inventory) = Cardinality(SheetsOf(bid) \ SheetsOf(gmp))
                            + Cardinality(SheetsOf(gmp) \ SheetsOf(bid))
        /\ \A k \in 1..Len(inventory) :
               /\ inventory[k].reference \notin SheetsOf(gmp) \cap SheetsOf(bid)
               /\ inventory[k].change_type = "Added" =>
                      inventory[k].reference \in SheetsOf(bid) \ SheetsOf(gmp)
               /\ inventory[k].change_type = "Removed" =>
                      inventory[k].reference \in SheetsOf(gmp) \ SheetsOf(bid)
        /\ \A i, j \in 1..Len(inventory) :
               (i < j) =>
                   /\ inventory[i].change_type = "Removed" =>
                          inventory[j].change_type = "Removed"
                   /\ inventory[i].change_type = inventory[j].change_type =>
                          LexLess(inventory[i].reference,
                                  inventory[j].reference)

\* Two sheets only in the target set, listed there in descending order, and
\* one sheet only in the source set.
C16_Witness ==
    /\ pc = "returned"
    /\ SheetsOf(gmp) = {SheetX900}
    /\ Len(bid.pages) = 2
    /\ bid.pages[1].sheet_id = SheetE201
    /\ bid.pages[2].sheet_id = SheetA101
    /\ Len(inventory) = 3
    /\ inventory[1].reference = SheetA101
    /\ inventory[2].reference = SheetE201
    /\ inventory[2].change_type = "Added"
    /\ inventory[3].reference = SheetX900
    /\ inventory[3].change_type = "Removed"

(***************************************************************************)
(* Properties of the configuration                                         *)
(***************************************************************************)

\* The configuration holds a heading pattern that does not compile.
HasBrokenPattern(cfg) ==
    \E k \in 1..Len(SpecPatterns(cfg)) : ~PatternCompiles(SpecPatterns(cfg)[k])

\* C18: with an unparsable spec_section_patterns entry the run fails at
\* startup: it never enters matching or diffing and never writes a workbook,
\* whatever the pages hold.
C18_FailsAtStartup ==
    HasBrokenPattern(config) =>
        /\ pc \in {"startup", "raised"}
        /\ results = <<>>
        /\ rows = <<>>
        /\ changes = <<>>

(***************************************************************************)
(* Properties of sheet identifiers                                         *)
(***************************************************************************)

\* The whitespace-free characters of a string.
Unspaced(s) == SelectSeq(s, LAMBDA c : c \notin {" ", "\t", "\n"})

\* The spelling of prefix p and suffix s with one of the separators.
IsSpellingOf(text, p, s) ==
    \E sep \in {<<>>, <<"-">>, <<"_">>} :
        Unspaced(text) = Unspaced(p.spelled) \o sep \o Unspaced(s.spelled)

\* C19: normalize_sheet_id maps every spelling of a sheet identifier, whatever
\* its whitespace, letter case and separator (none, "-" or "_") between the
\* prefix of one to four letters and the suffix that begins with a digit, to
\* PREFIX-SUFFIX in upper case, and maps its own result to itself.
C19_CanonicalSheetId ==
    (pc = "returned") =>
        /\ \A p \in SheetPrefixes, s \in SheetSuffixes :
               IsSpellingOf(call_args, p, s) =>
                   call_result = p.upper \o <<"-">> \o s.upper
        /\ normalize_sheet_id(call_result) = call_result

\* 'fp_ 5a' with whitespace around it has become 'FP-5A'.
C19_Witness ==
    /\ pc = "returned"
    /\ call_args = <<" ","f","p","_","\t","5","a","\n">>
    /\ call_result = <<"F","P","-","5","A">>

(***************************************************************************)
(* Properties of the candidate pool                                        *)
(***************************************************************************)

\* The pages of a list at the places of the set at, in the list's order.
PagesAt(pages, at) ==
    [i \in 1..Cardinality(at) |->
        pages[CHOOSE k \in at : Cardinality({j \in at : j < k}) = i - 1]]

\* The places of the target pages with the sheet identifier of src.
SameSheet(src, pages) ==
    {k \in 1..Len(pages) :
        /\ src.sheet_id \notin {None, <<>>}
        /\ pages[k].sheet_id = src.sheet_id}

\* The places of the target pages with the discipline of src, when it is
\* known.
SameDiscipline(src, pages) ==
    {k \in 1..Len(pages) :
        /\ src.discipline # "Unknown"
        /\ pages[k].discipline = src.discipline}

\* C20: the candidate pool of a source page is the target pages with its
\* sheet identifier when there are any; otherwise the target pages of its
\* discipline when that is known and there are any; otherwise every target
\* page; always in the order of the target set.
C20_CandidatePool ==
    (pc = "returned") =>
        call_result =
            IF SameSheet(gmp.pages[1], bid.pages) # {}
            THEN PagesAt(bid.pages, SameSheet(gmp.pages[1], bid.pages))
            ELSE IF SameDiscipline(gmp.pages[1], bid.pages) # {}
            THEN PagesAt(bid.pages, SameDiscipline(gmp.pages[1], bid.pages))
            ELSE bid.pages

\* A source page without sheet identifier gets the first and the third
\* target page, which are of its discipline, and not the second.
C20_Witness ==
    /\ pc = "returned"
    /\ gmp.pages[1].sheet_id = None
    /\ gmp.pages[1].discipline = "Architectural"
    /\ Len(bid.pages) = 3
    /\ bid.pages[2].discipline = "Unknown"
    /\ call_result = <<bid.pages[1], bid.pages[3]>>

(***************************************************************************)
(* Properties of the choice among candidates                               *)
(***************************************************************************)

\* The composite scores of the members of a pool, in pool order.
PoolScores(src, pool) ==
    [k \in 1..Len(pool) |-> _composite_score(src, pool[k], WeightCfg)]

\* The k-th pool member scores highest, and higher than all before it.
FirstMaximal(scored, k) ==
    /\ \A j \in 1..Len(scored) : scored[j].score <= scored[k].score
    /\ \A j \in 1..(k - 1) : scored[j].score < scored[k].score

\* The result names the k-th pool member with its score and evidence.
ChosenAt(result, pool, scored, k) ==
    /\ result.to_page = pool[k]
    /\ result.score = scored[k].score
    /\ result.reasons = scored[k].reasons
    /\ FirstMaximal(scored, k)

IsFirstBest(result, pool, scored) ==
    \E k \in 1..Len(pool) : ChosenAt(result, pool, scored, k)

\* The candidate pool of the i-th source page in the current call.
PoolFor(i) == _candidate_pool(gmp.pages[i], ToSet.pages, BuildBySheet(ToSet.pages))

\* C21: the target page of a MatchResult is a member of the source page's
\* pool whose composite score is the highest of the pool, the first such
\* member in pool order, and the result carries that pair's score and
\* evidence.
C21_FirstMaximal ==
    \A i \in 1..Len(results) :
        (results[i].to_page # NoPage) =>
            IsFirstBest(results[i], PoolFor(i),
                        PoolScores(gmp.pages[i], PoolFor(i)))

\* Two target pages score the same for the first source page, which got
\* the first of them; for the second source page the later target page
\* scores higher and was chosen.
C21_Witness ==
    /\ Len(results) = 2
    /\ Len(bid.pages) = 2
    /\ Len(PoolFor(1)) = 2
    /\ _composite_score(gmp.pages[1], bid.pages[1], WeightCfg).score
           = _composite_score(gmp.pages[1], bid.pages[2], WeightCfg).score
    /\ results[1].to_page = bid.pages[1]
    /\ results[2].to_page = bid.pages[2]
    /\ Len(PoolFor(2)) = 2

\* s in the opposite order
Reversed(s) == [k \in 1..Len(s) |-> s[Len(s) + 1 - k]]

\* What match_pages returns for the i-th source page when it is the only
\* page of the source set.
MatchedAlone(i) ==
    match_pages(DocSet(GMP, <<gmp.pages[i]>>), ToSet, WeightCfg)[1]

\* What match_pages returns for the i-th source page when the source pages
\* come in the opposite order.
MatchedReversed(i) ==
    match_pages(DocSet(GMP, Reversed(gmp.pages)), ToSet, WeightCfg)[
        Len(gmp.pages) + 1 - i]

\* Every result so far is the one its source page gets on its own, and the
\* returned list is, page by page, the one of the opposite order.
PerPageResults ==
    /\ \A i \in 1..Len(results) : results[i] = MatchedAlone(i)
    /\ (pc = "compare") =>
           \A i \in 1..Len(matches) : matches[i] = MatchedReversed(i)

\* A step of match_pages leaves both document sets, with all their page
\* records, and the index of the target set as they are.
ReadsOnly ==
    /\ gmp' = gmp
    /\ bid' = bid
    /\ (pc = "match_loop") => by_sheet' = by_sheet

\* C22: the MatchResult of a source page depends on that page, the target
\* set and the weights alone - it is the same without the other source
\* pages and with the source pages in another order - and match_pages
\* changes neither document set nor a page record.
C22_PerPageIndependent == []PerPageResults /\ [][ReadsOnly]_vars

\* Two source pages have received the same target page.
C22_Witness ==
    /\ pc = "compare"
    /\ Len(matches) = 2
    /\ matches[1].to_page # NoPage
    /\ matches[1].to_page = matches[2].to_page
    /\ gmp.pages[1].text # gmp.pages[2].text
    /\ Len(bid.pages) = 2

(***************************************************************************)
(* Properties of the records of compare_sets                               *)
(***************************************************************************)

\* diff.note_bullet_min_len of the configuration, 12 when it is absent.
ConfiguredMinLen ==
    CfgGet(CfgGet(config, "diff", EmptyMap), "note_bullet_min_len", 12)

\* The note rows of a matched pair when a line is a bullet only if it has
\* min_len characters or more.
NoteRowsWith(match, min_len) ==
    NoteRowsOf(config, gmp, bid, match, Reference(match.from_page),
               diff_note_lists(split_note_bullets(match.from_page.text, min_len),
                               split_note_bullets(match.to_page.text, min_len)))

\* The Added and Removed rows about notes among a list of ChangeRows.
NoteRecords(list) ==
    SelectSeq(list, LAMBDA row :
        row.doc_type = "Drawing" /\ row.change_type \in {"Added", "Removed"})

RECURSIVE NoteRowsOfAll(_, _)
NoteRowsOfAll(ms, min_len) ==
    IF ms = <<>> THEN <<>>
    ELSE (IF ms[1].to_page = NoPage THEN <<>> ELSE NoteRowsWith(ms[1], min_len))
         \o NoteRowsOfAll(Tail(ms), min_len)

\* C23: the note rows that compare_sets produces are those of the bullets of
\* at least diff.note_bullet_min_len characters (12 when the key is absent):
\* no shorter line is in an added or removed note row and every longer
\* enumerated line that differs is.
C23_ConfiguredMinLen ==
    (pc \in {"rows", "returned"}) =>
        NoteRecords(rows) = NoteRowsOfAll(matches, ConfiguredMinLen)

\* The configured flag groups, in the order of the configuration, that have
\* a term occurring in the text when letter case is ignored.
GroupsNamedIn(text) ==
    GroupsOf(SelectSeq(CfgGet(config, "flags", <<>>), LAMBDA item :
        \E k \in 1..Len(item.terms) :
            Contains(Lower(text), Lower(item.terms[k]))))

\* The flags of a ChangeRow are the groups named in its after text.
FlagsFromAfter(row) ==
    row.auto_flags = JoinNames(GroupsNamedIn(row.after_snippet), ";")

\* C24: the flag groups of every ChangeRecord of compare_sets - note, table
\* or specification record - are exactly the configured groups of which a
\* term occurs, letter case ignored, in the after text of the record; a term
\* that occurs in the before text alone sets no flag.
C24_FlagsFromAfterText ==
    (pc \in {"rows", "returned"}) =>
        \A k \in 1..Len(rows) : FlagsFromAfter(rows[k])

\* Two ChangeRows say the same about the change: reference, change type,
\* summary and both snippets.
SameChange(a, b) ==
    /\ a.reference = b.reference
    /\ a.change_type = b.change_type
    /\ a.change_summary = b.change_summary
    /\ a.before_snippet = b.before_snippet
    /\ a.after_snippet = b.after_snippet

\* C29: two ChangeRecords that compare_sets produces for one pair of sets
\* under the same change id agree on reference, change type, summary and
\* before and after snippets, so keeping one record per id discards no
\* distinct change - also when several source pages carry one sheet id.
C29_SameIdSameChange ==
    (pc \in {"rows", "returned"}) =>
        \A j, k \in 1..Len(rows) :
            rows[j].change_id = rows[k].change_id => SameChange(rows[j], rows[k])

(***************************************************************************)
(* Properties of match_pages under any weights                             *)
(***************************************************************************)

\* The page is one of the pages of the pool.
InPool(page, pool) == \E k \in 1..Len(pool) : pool[k] = page

\* C28: whenever the target set has a page, the MatchResult of every source
\* page has a target page and that page is a member of the source page's
\* pool, whatever the weights are - zero and negative weights included; a
\* result is without target only when the pool is empty.
C28_TargetWheneverPool ==
    \A i \in 1..Len(results) :
        /\ (ToSet.pages # <<>>) => InPool(results[i].to_page, PoolFor(i))
        /\ (results[i].to_page = NoPage) => PoolFor(i) = <<>>

(***************************************************************************)
(* Properties of fingerprints                                              *)
(***************************************************************************)

\* The tokens of the text that simhash64 was called with.
TokensOfCall ==
    IF call_args.kind = "text" THEN Tokenize(call_args.text)
    ELSE call_args.tokens

\* The first TokenCap of the tokens, all of them when they are fewer.
Voters(toks) ==
    [k \in 1..(IF Len(toks) > TokenCap THEN TokenCap ELSE Len(toks)) |-> toks[k]]

\* The tokens among toks whose hash has bit i set.
SetVotes(toks, i) ==
    Cardinality({k \in 1..Len(toks) : i \in Sha1Hi64(toks[k])})

\* The bits that at least as many of the tokens have set as have clear.
MajorityBits(toks) ==
    {i \in 0..(FingerprintBits - 1) :
        SetVotes(toks, i) >= Len(toks) - SetVotes(toks, i)}

IsFingerprintOf(result, toks) ==
    /\ result \subseteq 0..(FingerprintBits - 1)
    /\ result = MajorityBits(Voters(toks))
    /\ (toks = <<>>) => result = 0..(FingerprintBits - 1)

\* C25: bit i of simhash64(text) is 1 exactly when, among the first 5000
\* tokens of the text, the tokens whose hash has bit i set are at least as
\* many as those whose hash has it clear, a tie giving 1; a text without a
\* token of three characters has all 64 bits set; the value lies in
\* 0..2^64-1; tokens after the 5000th do not change it.
C25_MajorityOfFirstTokens ==
    (pc = "returned") => IsFingerprintOf(call_result, TokensOfCall)

\* A text of more than 5000 tokens has returned: on a bit where the first
\* 5000 tokens are tied the 5001st token has the bit clear, and the bit is
\* set in the result.
C25_Witness ==
    /\ pc = "returned"
    /\ call_args.kind = "tokens"
    /\ Len(call_args.tokens) > TokenCap
    /\ \E i \in call_result :
           /\ 2 * SetVotes(Voters(call_args.tokens), i) = TokenCap
           /\ i \notin Sha1Hi64(call_args.tokens[TokenCap + 1])

\* The similarity of hamming_similarity, in 64ths, that the call computes
\* from the bits in which a and b differ.
DifferingBits(a, b) == {i \in 0..(FingerprintBits - 1) : (i \in a) # (i \in b)}

\* C26: hamming_similarity is symmetric - both orders of two values give
\* the same similarity -, the similarity of a value with itself is 1, the
\* differing bits are between 0 and 64 and the similarity lies in [0, 1].
C26_SymmetricReflexiveBounded ==
    (pc = "returned") =>
        /\ call_result = FingerprintBits
                         - Cardinality(DifferingBits(call_args.a, call_args.b))
        /\ call_result \in 0..FingerprintBits
        /\ (call_args.a = call_args.b) => call_result = FingerprintBits
        /\ ("was" \in DOMAIN call_args) => call_result = call_args.was

\* Two different values were compared in both orders; they differ in some
\* bits and agree in others.
C26_Witness ==
    /\ pc = "returned"
    /\ "was" \in DOMAIN call_args
    /\ call_result \in 1..(FingerprintBits - 1)
    /\ call_args.a \ call_args.b # {}
    /\ call_args.b \ call_args.a # {}

(***************************************************************************)
(* Properties of specification sections                                    *)
(***************************************************************************)

RECURSIVE OffsetOf(_, _)
\* The number of characters before the k-th piece.
OffsetOf(pieces, k) ==
    IF k = 1 THEN 0 ELSE OffsetOf(pieces, k - 1) + Len(pieces[k - 1].text)

\* The pieces that begin with a heading, in ascending order of their start.
HeadingsOf(pieces) == {k \in 1..Len(pieces) : pieces[k].key # <<>>}

\* Where the chunk of the heading of piece k ends: at the start of the next
\* heading, at the end of the text after the last one.
NextHeading(pieces, k) ==
    IF \E j \in HeadingsOf(pieces) : j > k
    THEN OffsetOf(pieces, CHOOSE j \in HeadingsOf(pieces) :
                      j > k /\ \A h \in HeadingsOf(pieces) : h > k => j <= h)
    ELSE Len(Concat(pieces))

\* The trimmed text from the heading of piece k to the next heading.
ChunkFrom(pieces, k) ==
    Strip(SubSeq(Concat(pieces), OffsetOf(pieces, k) + 1, NextHeading(pieces, k)))

\* The heading piece whose chunk the key maps to: the longest chunk among
\* the headings of that key, the earliest of the longest.
LongestFor(pieces, key) ==
    CHOOSE k \in HeadingsOf(pieces) :
        /\ pieces[k].key = key
        /\ \A j \in HeadingsOf(pieces) :
               pieces[j].key = key =>
                   \/ Len(ChunkFrom(pieces, j)) < Len(ChunkFrom(pieces, k))
                   \/ (Len(ChunkFrom(pieces, j)) = Len(ChunkFrom(pieces, k))
                       /\ k <= j)

SectionsAsStated(out, pieces) ==
    /\ DOMAIN out = {pieces[k].key : k \in HeadingsOf(pieces)}
    /\ \A key \in DOMAIN out : out[key] = ChunkFrom(pieces, LongestFor(pieces, key))

\* C27: when a heading pattern matches, every match, in ascending order of
\* start, gets the trimmed text from its start to the start of the next
\* match - to the end of the text for the last -, and every section key
\* maps to the longest chunk of its matches, the earliest among chunks of
\* the same length; a text with two different headings gives exactly two
\* sections, split where the second heading starts.
C27_LongestChunkPerKey ==
    (pc = "returned" /\ HeadingsOf(call_args.pieces) # {}) =>
        SectionsAsStated(call_result, call_args.pieces)

\* The text has three headings: the first two have the same key and chunks
\* of the same length and different wording, the third has another key.
C27_Witness ==
    /\ pc = "returned"
    /\ Len(call_args.pieces) = 3
    /\ HeadingsOf(call_args.pieces) = {1, 2, 3}
    /\ call_args.pieces[1].key = call_args.pieces[2].key
    /\ call_args.pieces[3].key # call_args.pieces[1].key
    /\ Len(ChunkFrom(call_args.pieces, 1)) = Len(ChunkFrom(call_args.pieces, 2))
    /\ ChunkFrom(call_args.pieces, 1) # ChunkFrom(call_args.pieces, 2)
    /\ Cardinality(DOMAIN call_result) = 2
    /\ call_result[call_args.pieces[1].key] = ChunkFrom(call_args.pieces, 1)

(***************************************************************************)
(* Properties of the session of the front end                              *)
(***************************************************************************)

\* C30: whatever sequence of Run Diff, Run AI Scan and Export has been
\* performed, no two records of the session's change list have the same
\* change id - a repeated AI scan does not append findings that the list
\* already holds -, and after Run Diff the list is the one of the run and
\* the AI findings of the session are empty.
C30_SessionUniqueIds ==
    /\ (pc \in SessionWaits) => UniqueIds(changes)
    /\ (pc = "ready") =>
           /\ changes = build_results(config, gmp, bid, addenda).changes
           /\ ai_findings = <<>>

====
